---- MODULE Spec2Model ----
(***************************************************************************)
(* agents.txt core: the text parser, the validator, the generators and the *)
(* JSON codec, modelled from packages/core/src.                            *)
(*                                                                         *)
(* A JavaScript string is a sequence of one-character strings; undefined   *)
(* is the empty option None and a defined value v is Some(v), so that the  *)
(* empty string Some(<<>>) and undefined stay apart.  A JavaScript object   *)
(* used as a map (agents, metadata) is the sequence of its own entries in  *)
(* property order.                                                         *)
(***************************************************************************)
EXTENDS Integers, Sequences, FiniteSets, TLC

\* ------------------------------------------------------------------ bounds
MaxLines == 3
MaxCaps == 3
MaxRefs == 2

\* ------------------------------------------------- strings and optionals
Chars(s) == [k \in 1..Len(s) |-> SubSeq(s, k, k)]

None == <<>>
Some(v) == <<v>>
IsSome(o) == o # <<>>
Get(o) == o[1]
\* JavaScript truthiness of an optional string: defined and not ""
Truthy(o) == IsSome(o) /\ Get(o) # <<>>
\* a ?? b
OrElse(o, d) == IF IsSome(o) THEN Get(o) ELSE d

Last(q) == q[Len(q)]

SetMin(S) == CHOOSE x \in S : \A y \in S : x <= y
SetMax(S) == CHOOSE x \in S : \A y \in S : x >= y

\* String.prototype.trim: the white space of the modelled alphabet
WhiteSpace == {" ", "\t", "\n", "\r", "\f"}
\* [\x00-\x1f] of the modelled alphabet
ControlChars == {"\t", "\n", "\r", "\f"}
Digits == {"0", "1", "2", "3", "4", "5", "6", "7", "8", "9"}

trim(s) ==
  LET keep == {k \in 1..Len(s) : s[k] \notin WhiteSpace}
  IN  IF keep = {} THEN <<>> ELSE SubSeq(s, SetMin(keep), SetMax(keep))

\* String.prototype.indexOf for a one-character needle: 0-based, -1 if absent
indexOf(s, c) ==
  LET hits == {k \in 1..Len(s) : s[k] = c}
  IN  IF hits = {} THEN -1 ELSE SetMin(hits) - 1

\* String.prototype.slice for 0 <= from, 0 <= to
slice(s, from, to) == SubSeq(s, from + 1, IF to < Len(s) THEN to ELSE Len(s))
sliceFrom(s, from) == SubSeq(s, from + 1, Len(s))

startsWith(s, prefix) ==
  Len(s) >= Len(prefix) /\ SubSeq(s, 1, Len(prefix)) = prefix

LowerLetters == Chars("abcdefghijklmnopqrstuvwxyz")
UpperLetters == Chars("ABCDEFGHIJKLMNOPQRSTUVWXYZ")
upperChar(c) ==
  IF \E k \in 1..26 : LowerLetters[k] = c
    THEN UpperLetters[CHOOSE k \in 1..26 : LowerLetters[k] = c]
    ELSE c
lowerChar(c) ==
  IF \E k \in 1..26 : UpperLetters[k] = c
    THEN LowerLetters[CHOOSE k \in 1..26 : UpperLetters[k] = c]
    ELSE c
toUpperCase(s) == [k \in 1..Len(s) |-> upperChar(s[k])]
toLowerCase(s) == [k \in 1..Len(s) |-> lowerChar(s[k])]

\* Array.prototype.join
RECURSIVE join(_, _)
join(parts, sep) ==
  IF parts = <<>> THEN <<>>
  ELSE IF Len(parts) = 1 THEN parts[1]
  ELSE parts[1] \o sep \o join(Tail(parts), sep)

\* String.prototype.split on a one-character separator: always >= 1 part
RECURSIVE splitChar(_, _)
splitChar(s, c) ==
  LET at == indexOf(s, c)
  IN  IF at = -1 THEN <<s>>
      ELSE <<slice(s, 0, at)>> \o splitChar(sliceFrom(s, at + 1), c)

\* input.split(/\r?\n/): a CR directly before the LF belongs to the separator
RECURSIVE splitLines(_)
splitLines(s) ==
  LET at == indexOf(s, "\n")
  IN  IF at = -1 THEN <<s>>
      ELSE LET cut == IF at > 0 /\ s[at] = "\r" THEN at - 1 ELSE at
           IN  <<slice(s, 0, cut)>> \o splitLines(sliceFrom(s, at + 1))

\* value.split(",").map((s) => s.trim())
splitTrim(value) ==
  LET parts == splitChar(value, ",")
  IN  [k \in 1..Len(parts) |-> trim(parts[k])]

\* parseInt(digits, 10) for a string of decimal digits
DigitValue(c) == CHOOSE n \in 0..9 : Chars("0123456789")[n + 1] = c
RECURSIVE parseInt(_)
parseInt(ds) ==
  IF ds = <<>> THEN 0
  ELSE 10 * parseInt(SubSeq(ds, 1, Len(ds) - 1)) + DigitValue(ds[Len(ds)])

\* String(n) for a non-negative integer below 10^21
RECURSIVE numberToString(_)
numberToString(n) ==
  IF n < 10 THEN <<Chars("0123456789")[n + 1]>>
  ELSE numberToString(n \div 10) \o <<Chars("0123456789")[(n % 10) + 1]>>

\* ------------------------------------------- objects used as ordered maps
\* An own property key that is a canonical array index sorts before every
\* other key, in numeric order; the remaining keys keep insertion order.
IsArrayIndex(key) ==
  /\ key # <<>>
  /\ Len(key) <= 9
  /\ \A k \in 1..Len(key) : key[k] \in Digits
  /\ (Len(key) > 1 => key[1] # "0")

ObjHas(obj, key) == \E k \in 1..Len(obj) : obj[k].key = key
ObjGet(obj, key) == obj[CHOOSE k \in 1..Len(obj) : obj[k].key = key].value
ObjKeys(obj) == [k \in 1..Len(obj) |-> obj[k].key]
ObjKeySet(obj) == {obj[k].key : k \in 1..Len(obj)}

\* obj[key] = value, obj being an object literal: the key __proto__ is the
\* accessor inherited from Object.prototype, whose setter creates no own
\* property
ObjSet(obj, key, value) ==
  LET entry == [key |-> key, value |-> value]
  IN  IF key = Chars("__proto__") THEN obj
      ELSE IF ObjHas(obj, key)
        THEN [k \in 1..Len(obj) |-> IF obj[k].key = key THEN entry ELSE obj[k]]
      ELSE IF IsArrayIndex(key)
        THEN LET before == {k \in 1..Len(obj) :
                              IsArrayIndex(obj[k].key)
                              /\ parseInt(obj[k].key) < parseInt(key)}
                 n == Cardinality(before)
             IN  SubSeq(obj, 1, n) \o <<entry>> \o SubSeq(obj, n + 1, Len(obj))
      ELSE Append(obj, entry)


\* ------------------------------------------------------------ utils.ts
\* the default of sanitizeValue's maxLength parameter
DefaultMaxLength == 500

sanitizeKeepingBreaks(value, maxLength) ==
  slice(trim(SelectSeq(value, LAMBDA c : c \notin (ControlChars \ {"\r", "\n"}))),
        0, maxLength)

sanitizeValue(value, maxLength) ==
  LET spaced == [k \in 1..Len(value) |->
                   IF value[k] \in {"\r", "\n"} THEN " " ELSE value[k]]
      stripped == SelectSeq(spaced, LAMBDA c : c \notin ControlChars)
  IN  slice(trim(stripped), 0, maxLength)

RateLimitWindows ==
  {Chars("second"), Chars("minute"), Chars("hour"), Chars("day")}

parseRateLimitNonNegative(value) ==
  LET at == indexOf(value, "/")
      digits == slice(value, 0, at)
      window == sliceFrom(value, at + 1)
  IN  IF at < 1 THEN None
      ELSE IF \E k \in 1..Len(digits) : digits[k] \notin Digits THEN None
      ELSE IF window \notin RateLimitWindows THEN None
      ELSE Some([requests |-> parseInt(digits), window |-> window])

\* ^(\d+)\/(second|minute|hour|day)$ and requests > 0; None models null
parseRateLimit(value) ==
  LET at == indexOf(value, "/")
      digits == slice(value, 0, at)
      window == sliceFrom(value, at + 1)
  IN  IF at < 1 THEN None
      ELSE IF \E k \in 1..Len(digits) : digits[k] \notin Digits THEN None
      ELSE IF window \notin RateLimitWindows THEN None
      ELSE IF parseInt(digits) <= 0 THEN None
      ELSE Some([requests |-> parseInt(digits), window |-> window])

formatRateLimitSpaced(requests, window) ==
  numberToString(requests) \o <<" ", "/", " ">> \o window

formatRateLimit(requests, window) ==
  numberToString(requests) \o <<"/">> \o window

\* ----------------------------------------------------------- parser.ts
VALID_PROTOCOLS ==
  {Chars("REST"), Chars("MCP"), Chars("A2A"), Chars("GraphQL"),
   Chars("WebSocket")}
VALID_AUTH_TYPES ==
  {Chars("none"), Chars("api-key"), Chars("bearer-token"), Chars("oauth2"),
   Chars("hmac")}
MAX_INPUT_SIZE == 1048576
MAX_CAPABILITIES == 1000

\* the one non-ASCII character of the format, U+2014
EmDash == "\\u2014"
WordChars ==
  {LowerLetters[k] : k \in 1..26} \cup {UpperLetters[k] : k \in 1..26}
  \cup Digits \cup {"_"}
\* . of a regular expression without the s flag
LineTerminators == {"\n", "\r"}

\* length of the longest prefix of s made of characters of set
PrefixLen(s, set) ==
  LET stop == {k \in 1..Len(s) : s[k] \notin set}
  IN  IF stop = {} THEN Len(s) ELSE SetMin(stop) - 1
SkipWs(s) == sliceFrom(s, PrefixLen(s, WhiteSpace))

validLocations ==
  {Chars("query"), Chars("path"), Chars("header"), Chars("body")}

\* /^(\w+)\s*\(\s*(\w+)\s*,\s*(\w+)(?:\s*,\s*(required))?\s*\)
\*   (?:\s*<em-dash>\s*(.+))?$/, matched left to right; None models null
parseParam(value) ==
  LET nameLen == PrefixLen(value, WordChars)
      name == slice(value, 0, nameLen)
      r1 == SkipWs(sliceFrom(value, nameLen))
      r2 == SkipWs(Tail(r1))
      locLen == PrefixLen(r2, WordChars)
      location == slice(r2, 0, locLen)
      r3 == SkipWs(sliceFrom(r2, locLen))
      r4 == SkipWs(Tail(r3))
      typeLen == PrefixLen(r4, WordChars)
      type == slice(r4, 0, typeLen)
      r5 == SkipWs(sliceFrom(r4, typeLen))
      hasReq == r5 # <<>> /\ r5[1] = ","
      r6 == IF hasReq THEN SkipWs(Tail(r5)) ELSE r5
      reqOk == hasReq => startsWith(r6, Chars("required"))
      r7 == IF hasReq THEN SkipWs(sliceFrom(r6, 8)) ELSE r6
      r8 == Tail(r7)
      r9 == SkipWs(r8)
      afterDash == Tail(r9)
      \* \s* gives back one character when nothing is left for (.+)
      description ==
        IF SkipWs(afterDash) # <<>> THEN SkipWs(afterDash)
        ELSE sliceFrom(afterDash, Len(afterDash) - 1)
      hasDesc == r8 # <<>>
      descOk ==
        hasDesc =>
          /\ r9 # <<>> /\ r9[1] = EmDash
          /\ afterDash # <<>>
          /\ \A k \in 1..Len(description) :
               description[k] \notin LineTerminators
      matched ==
        /\ nameLen > 0
        /\ r1 # <<>> /\ r1[1] = "("
        /\ locLen > 0
        /\ r3 # <<>> /\ r3[1] = ","
        /\ typeLen > 0
        /\ reqOk
        /\ r7 # <<>> /\ r7[1] = ")"
        /\ descOk
  IN  IF ~matched THEN None
      ELSE IF location \notin validLocations THEN None
      ELSE Some([name |-> name,
                 in |-> location,
                 type |-> type,
                 required |-> hasReq,
                 description |->
                   IF hasDesc THEN Some(trim(description)) ELSE None])

\* --- parse: the locals of one call, as a record ---------------------------
emptySite ==
  [name |-> None, url |-> None, description |-> None, contact |-> None,
   privacyPolicy |-> None]

NewFrame ==
  [specVersion |-> Chars("1.0"),
   generatedAt |-> None,
   site |-> emptySite,
   capabilities |-> <<>>,
   allowPaths |-> <<>>,
   disallowPaths |-> <<>>,
   agents |-> <<>>,
   metadata |-> <<>>,
   state |-> "TOP_LEVEL",
   currentCapability |-> None,
   currentAgentName |-> None,
   currentAgentPolicy |-> None,
   errors |-> <<>>,
   warnings |-> <<>>]

\* currentCapability = { id: value }
NewCapability(id) ==
  [id |-> id, description |-> None, endpoint |-> None, method |-> None,
   protocol |-> None, auth |-> None, rateLimit |-> None, openapi |-> None,
   parameters |-> None, scopes |-> None]

NewAuth(type) ==
  [type |-> type, tokenEndpoint |-> None, docsUrl |-> None,
   registrationEndpoint |-> None, scopes |-> None]

\* currentAgentPolicy = {}
NewPolicy == [rateLimit |-> None, capabilities |-> None]

Warning(line, field, text, arg) ==
  [line |-> line, field |-> field, message |-> <<text, arg>>]

flushCapabilityDropping(f) == [f EXCEPT !.currentCapability = None]

flushCapability(f) ==
  LET cur == f.currentCapability
  IN  IF IsSome(cur) /\ Get(cur).id # <<>>
        THEN [f EXCEPT
                !.capabilities =
                  Append(@, [id |-> Get(cur).id,
                             description |-> OrElse(Get(cur).description, <<>>),
                             endpoint |-> OrElse(Get(cur).endpoint, <<>>),
                             method |-> Get(cur).method,
                             protocol |-> OrElse(Get(cur).protocol, Chars("REST")),
                             auth |-> Get(cur).auth,
                             rateLimit |-> Get(cur).rateLimit,
                             openapi |-> Get(cur).openapi,
                             parameters |-> Get(cur).parameters,
                             scopes |-> Get(cur).scopes]),
                !.currentCapability = None]
        ELSE [f EXCEPT !.currentCapability = None]

flushAgentKeepingPolicy(f) ==
  [f EXCEPT !.agents = IF IsSome(f.currentAgentName) /\ IsSome(f.currentAgentPolicy)
                         THEN ObjSet(@, Get(f.currentAgentName),
                                     Get(f.currentAgentPolicy))
                         ELSE @,
            !.currentAgentName = None]

flushAgent(f) ==
  LET g == IF IsSome(f.currentAgentName) /\ IsSome(f.currentAgentPolicy)
             THEN [f EXCEPT !.agents = ObjSet(@, Get(f.currentAgentName),
                                              Get(f.currentAgentPolicy))]
             ELSE f
  IN  [g EXCEPT !.currentAgentName = None, !.currentAgentPolicy = None]

\* trimmed.match(/^#\s*<name>:\s*(.+)/i): the capture, or None
matchHeader(trimmed, name) ==
  LET r1 == SkipWs(Tail(trimmed))
      label == name \o <<":">>
      r2 == SkipWs(sliceFrom(r1, Len(label)))
      stop == {k \in 1..Len(r2) : r2[k] \in LineTerminators}
  IN  IF trimmed = <<>> \/ trimmed[1] # "#" THEN None
      ELSE IF toLowerCase(slice(r1, 0, Len(label))) # toLowerCase(label) THEN None
      ELSE IF r2 = <<>> THEN None
      ELSE Some(IF stop = {} THEN r2 ELSE slice(r2, 0, SetMin(stop) - 1))

isSkipped(trimmed) == trimmed = <<>> \/ trimmed[1] = "#"
isIndented(raw) == startsWith(raw, <<" ", " ">>) \/ startsWith(raw, <<"\t">>)

SkipLineClosing(f, trimmed) ==
  [flushAgent(flushCapability(f)) EXCEPT !.state = "TOP_LEVEL"]

\* lines 89-96
SkipLine(f, trimmed) ==
  LET specMatch == matchHeader(trimmed, Chars("Spec-Version"))
      genMatch == matchHeader(trimmed, Chars("Generated"))
      g == IF IsSome(specMatch)
             THEN [f EXCEPT !.specVersion = trim(Get(specMatch))] ELSE f
  IN  IF IsSome(genMatch)
        THEN [g EXCEPT !.generatedAt = Some(trim(Get(genMatch)))] ELSE g

keyOf(trimmed) == trim(slice(trimmed, 0, indexOf(trimmed, ":")))
valueOf(trimmed) == trim(sliceFrom(trimmed, indexOf(trimmed, ":") + 1))

WithAuth(cur, type) ==
  IF IsSome(cur.auth) THEN cur ELSE [cur EXCEPT !.auth = Some(NewAuth(type))]

\* lines 101-178, the switch on an indented line of a Capability block
CapabilityLine(f, trimmed, lineNum) ==
  LET key == keyOf(trimmed)
      value == valueOf(trimmed)
      cur == Get(f.currentCapability)
      set(c) == [f EXCEPT !.currentCapability = Some(c)]
      warn(g, field, text, arg) ==
        [g EXCEPT !.warnings = Append(@, Warning(Some(lineNum), field, text, arg))]
  IN  IF indexOf(trimmed, ":") = -1
        THEN warn(f, None, "Unparseable indented line", trimmed)
      ELSE IF key = Chars("Endpoint")
        THEN set([cur EXCEPT !.endpoint = Some(value)])
      ELSE IF key = Chars("Method")
        THEN set([cur EXCEPT !.method = Some(toUpperCase(value))])
      ELSE IF key = Chars("Protocol")
        THEN IF value \in VALID_PROTOCOLS
               THEN set([cur EXCEPT !.protocol = Some(value)])
               ELSE warn(set([cur EXCEPT !.protocol = Some(value)]),
                         Some("Protocol"), "Unknown protocol", value)
      ELSE IF key = Chars("Auth")
        THEN LET c == WithAuth(cur, Chars("none"))
             IN  IF value \in VALID_AUTH_TYPES
                   THEN set([c EXCEPT !.auth = Some([Get(@) EXCEPT !.type = value])])
                   ELSE warn(set(c), Some("Auth"), "Unknown auth type", value)
      ELSE IF key = Chars("Auth-Endpoint")
        THEN LET c == WithAuth(cur, Chars("bearer-token"))
             IN  set([c EXCEPT !.auth =
                        Some([Get(@) EXCEPT !.tokenEndpoint = Some(value)])])
      ELSE IF key = Chars("Auth-Docs")
        THEN LET c == WithAuth(cur, Chars("none"))
             IN  set([c EXCEPT !.auth =
                        Some([Get(@) EXCEPT !.docsUrl = Some(value)])])
      ELSE IF key = Chars("Registration-Endpoint")
        THEN LET c == WithAuth(cur, Chars("oauth2"))
             IN  set([c EXCEPT !.auth =
                        Some([Get(@) EXCEPT !.registrationEndpoint = Some(value)])])
      ELSE IF key = Chars("Scopes")
        THEN LET c == WithAuth(cur, Chars("oauth2"))
             IN  set([c EXCEPT !.auth =
                        Some([Get(@) EXCEPT !.scopes = Some(splitTrim(value))])])
      ELSE IF key = Chars("Rate-Limit")
        THEN IF IsSome(parseRateLimit(value))
               THEN set([cur EXCEPT !.rateLimit = parseRateLimit(value)])
               ELSE warn(f, Some("Rate-Limit"), "Invalid rate limit", value)
      ELSE IF key = Chars("Description")
        THEN set([cur EXCEPT !.description = Some(value)])
      ELSE IF key = Chars("OpenAPI")
        THEN set([cur EXCEPT !.openapi = Some(value)])
      ELSE IF key = Chars("Param")
        THEN IF IsSome(parseParam(value))
               THEN set([cur EXCEPT !.parameters =
                           Some(Append(OrElse(@, <<>>), Get(parseParam(value))))])
               ELSE warn(f, Some("Param"), "Invalid parameter", value)
      ELSE warn(f, None, "Unknown capability field", key)

\* lines 180-201, the switch on an indented line of an Agent block
AgentLine(f, trimmed, lineNum) ==
  LET key == keyOf(trimmed)
      value == valueOf(trimmed)
      cur == Get(f.currentAgentPolicy)
  IN  IF indexOf(trimmed, ":") = -1 THEN f
      ELSE IF key = Chars("Rate-Limit")
        THEN IF IsSome(parseRateLimit(value))
               THEN [f EXCEPT !.currentAgentPolicy =
                       Some([cur EXCEPT !.rateLimit = parseRateLimit(value)])]
               ELSE f
      ELSE IF key = Chars("Capabilities")
        THEN [f EXCEPT !.currentAgentPolicy =
                Some([cur EXCEPT !.capabilities = Some(splitTrim(value))])]
      ELSE [f EXCEPT !.warnings =
              Append(@, Warning(Some(lineNum), None, "Unknown agent field", key))]

\* lines 203-211
flushOpenBlockKeeping(f) == f

flushOpenBlock(f) ==
  LET g == IF f.state = "IN_CAPABILITY"
             THEN [flushCapability(f) EXCEPT !.state = "TOP_LEVEL"] ELSE f
  IN  IF g.state = "IN_AGENT"
        THEN [flushAgent(g) EXCEPT !.state = "TOP_LEVEL"] ELSE g

\* lines 213-267, the switch on a top-level line
Directive(f, trimmed, lineNum) ==
  LET key == keyOf(trimmed)
      value == valueOf(trimmed)
  IN  IF indexOf(trimmed, ":") = -1
        THEN [f EXCEPT !.warnings =
                Append(@, Warning(Some(lineNum), None, "Unparseable line", trimmed))]
      ELSE IF key = Chars("Site-Name")
        THEN [f EXCEPT !.site.name = Some(value)]
      ELSE IF key = Chars("Site-URL")
        THEN [f EXCEPT !.site.url = Some(value)]
      ELSE IF key \in {Chars("Description"), Chars("Site-Description")}
        THEN [f EXCEPT !.site.description = Some(value)]
      ELSE IF key \in {Chars("Contact"), Chars("Site-Contact")}
        THEN [f EXCEPT !.site.contact = Some(value)]
      ELSE IF key \in {Chars("Privacy-Policy"), Chars("Site-Privacy-Policy")}
        THEN [f EXCEPT !.site.privacyPolicy = Some(value)]
      ELSE IF key = Chars("Allow")
        THEN [f EXCEPT !.allowPaths = Append(@, value)]
      ELSE IF key = Chars("Disallow")
        THEN [f EXCEPT !.disallowPaths = Append(@, value)]
      ELSE IF key = Chars("Agents-JSON")
        THEN [f EXCEPT !.metadata = ObjSet(@, Chars("Agents-JSON"), value)]
      ELSE IF key = Chars("Capability")
        THEN IF Len(f.capabilities) >= MAX_CAPABILITIES
               THEN [f EXCEPT !.errors =
                       Append(@, [line |-> Some(lineNum), field |-> None,
                                  message |-> "Exceeds maximum capabilities"])]
               ELSE [f EXCEPT !.currentCapability = Some(NewCapability(value)),
                              !.state = "IN_CAPABILITY"]
      ELSE IF key = Chars("Agent")
        THEN [f EXCEPT !.currentAgentName = Some(value),
                       !.currentAgentPolicy = Some(NewPolicy),
                       !.state = "IN_AGENT"]
      ELSE [f EXCEPT !.metadata = ObjSet(@, key, value)]

TopLevelLine(f, trimmed, lineNum) ==
  Directive(flushOpenBlock(f), trimmed, lineNum)

\* which branch of the loop body handles the line
LineKind(f, raw) ==
  IF isSkipped(trim(raw)) THEN "skip"
  ELSE IF isIndented(raw) /\ f.state = "IN_CAPABILITY" /\ IsSome(f.currentCapability)
    THEN "capability"
  ELSE IF isIndented(raw) /\ f.state = "IN_AGENT" /\ IsSome(f.currentAgentPolicy)
    THEN "agent"
  ELSE "top"

\* one iteration of the loop of lines 83-268
ScanLine(f, raw, lineNum) ==
  CASE LineKind(f, raw) = "skip" -> SkipLine(f, trim(raw))
    [] LineKind(f, raw) = "capability" -> CapabilityLine(f, trim(raw), lineNum)
    [] LineKind(f, raw) = "agent" -> AgentLine(f, trim(raw), lineNum)
    [] LineKind(f, raw) = "top" -> TopLevelLine(f, trim(raw), lineNum)

\* lines 270-272
flushAtEndSkipped(f) == f

flushAtEnd(f) ==
  LET g == IF f.state = "IN_CAPABILITY" THEN flushCapability(f) ELSE f
  IN  IF g.state = "IN_AGENT" THEN flushAgent(g) ELSE g

\* lines 274-276
requiredFieldsFirstOnly(f) ==
  IF ~Truthy(f.site.name)
    THEN [f EXCEPT !.errors =
            Append(@, [line |-> None, field |-> Some("Site-Name"),
                       message |-> "Site-Name is required"])]
  ELSE IF ~Truthy(f.site.url)
    THEN [f EXCEPT !.errors =
            Append(@, [line |-> None, field |-> Some("Site-URL"),
                       message |-> "Site-URL is required"])]
  ELSE f

requiredFields(f) ==
  LET g == IF ~Truthy(f.site.name)
             THEN [f EXCEPT !.errors =
                     Append(@, [line |-> None, field |-> Some("Site-Name"),
                                message |-> "Site-Name is required"])]
             ELSE f
  IN  IF ~Truthy(g.site.url)
        THEN [g EXCEPT !.errors =
                Append(@, [line |-> None, field |-> Some("Site-URL"),
                           message |-> "Site-URL is required"])]
        ELSE g

buildResultStrict(f) ==
  [success |-> Len(f.errors) = 0 /\ Len(f.warnings) = 0,
   document |-> None, errors |-> f.errors, warnings |-> f.warnings]

\* lines 278-301
buildResult(f) ==
  IF Len(f.errors) > 0
    THEN [success |-> FALSE, document |-> None,
          errors |-> f.errors, warnings |-> f.warnings]
    ELSE [success |-> TRUE,
          document |-> Some(
            [specVersion |-> f.specVersion,
             generatedAt |-> f.generatedAt,
             site |-> [name |-> Get(f.site.name),
                       url |-> Get(f.site.url),
                       description |-> f.site.description,
                       contact |-> f.site.contact,
                       privacyPolicy |-> f.site.privacyPolicy],
             capabilities |-> f.capabilities,
             access |-> [allow |-> IF Len(f.allowPaths) > 0
                                     THEN f.allowPaths ELSE <<Chars("*")>>,
                         disallow |-> f.disallowPaths],
             agents |-> IF Len(f.agents) > 0 THEN f.agents
                        ELSE <<[key |-> Chars("*"), value |-> NewPolicy]>>,
             metadata |-> IF Len(f.metadata) > 0 THEN Some(f.metadata) ELSE None]),
          errors |-> f.errors, warnings |-> f.warnings]

Finish(f) == buildResult(requiredFields(flushAtEnd(f)))

\* An input is text followed by pad spaces: the run of spaces counts in
\* input.length and nowhere else, since trim removes it and the only line it
\* could make indented is empty once trimmed.
Text(t) == [text |-> t, pad |-> 0]
inputLength(in) == Len(in.text) + in.pad

tooLargeInclusive(in) == inputLength(in) >= MAX_INPUT_SIZE

tooLarge(in) == inputLength(in) > MAX_INPUT_SIZE

oversizeResult ==
  [success |-> FALSE, document |-> None,
   errors |-> <<[line |-> None, field |-> None,
                 message |-> "Input exceeds maximum size"]>>,
   warnings |-> <<>>]

RECURSIVE ScanFrom(_, _, _)
ScanFrom(f, ls, n) ==
  IF n >= Len(ls) THEN f ELSE ScanFrom(ScanLine(f, ls[n + 1], n + 1), ls, n + 1)

\* parse as a function of its input
parse(in) ==
  IF tooLarge(in) THEN oversizeResult
  ELSE Finish(ScanFrom(NewFrame, splitLines(in.text), 0))


\* -------------------------------------------------------- generator.ts
sanitize(value) == sanitizeValue(value, DefaultMaxLength)

\* `${label}${value}`
Line(label, value) == Chars(label) \o value
\* the line, if the condition holds
When(cond, line) == IF cond THEN <<line>> ELSE <<>>

RECURSIVE Flatten(_)
Flatten(seqs) == IF seqs = <<>> THEN <<>> ELSE Head(seqs) \o Flatten(Tail(seqs))

\* lines 61-69
paramLine(param) ==
  LET parts == <<param.in, param.type>>
               \o (IF param.required THEN <<Chars("required")>> ELSE <<>>)
      line == Chars("  Param: ") \o sanitize(param.name) \o Chars(" (")
              \o join(parts, Chars(", ")) \o Chars(")")
  IN  IF Truthy(param.description)
        THEN line \o <<" ", EmDash, " ">> \o sanitize(Get(param.description))
        ELSE line

\* lines 33-71
capabilityLines(cap) ==
  <<Line("Capability: ", sanitize(cap.id)),
    Line("  Endpoint: ", sanitize(cap.endpoint))>>
  \o When(Truthy(cap.method), Line("  Method: ", sanitize(OrElse(cap.method, <<>>))))
  \o <<Line("  Protocol: ", sanitize(cap.protocol))>>
  \o (IF IsSome(cap.auth)
        THEN <<Line("  Auth: ", sanitize(Get(cap.auth).type))>>
             \o When(Truthy(Get(cap.auth).tokenEndpoint),
                     Line("  Auth-Endpoint: ",
                          sanitize(OrElse(Get(cap.auth).tokenEndpoint, <<>>))))
             \o When(Truthy(Get(cap.auth).docsUrl),
                     Line("  Auth-Docs: ",
                          sanitize(OrElse(Get(cap.auth).docsUrl, <<>>))))
             \o When(IsSome(Get(cap.auth).scopes)
                       /\ Len(OrElse(Get(cap.auth).scopes, <<>>)) > 0,
                     Line("  Scopes: ",
                          join([k \in 1..Len(OrElse(Get(cap.auth).scopes, <<>>)) |->
                                  sanitize(Get(Get(cap.auth).scopes)[k])],
                               Chars(", "))))
        ELSE <<>>)
  \o When(IsSome(cap.rateLimit),
          Line("  Rate-Limit: ",
               formatRateLimit(OrElse(cap.rateLimit, [requests |-> 0, window |-> <<>>]).requests,
                               OrElse(cap.rateLimit, [requests |-> 0, window |-> <<>>]).window)))
  \o When(cap.description # <<>>, Line("  Description: ", sanitize(cap.description)))
  \o When(Truthy(cap.openapi), Line("  OpenAPI: ", sanitize(OrElse(cap.openapi, <<>>))))
  \o (IF IsSome(cap.parameters)
        THEN [k \in 1..Len(Get(cap.parameters)) |-> paramLine(Get(cap.parameters)[k])]
        ELSE <<>>)
  \o <<<<>>>>

\* lines 83-91
agentLines(entry) ==
  <<Line("Agent: ", sanitize(entry.key))>>
  \o When(IsSome(entry.value.rateLimit),
          Line("  Rate-Limit: ",
               formatRateLimit(OrElse(entry.value.rateLimit, [requests |-> 0, window |-> <<>>]).requests,
                               OrElse(entry.value.rateLimit, [requests |-> 0, window |-> <<>>]).window)))
  \o When(IsSome(entry.value.capabilities)
            /\ Len(OrElse(entry.value.capabilities, <<>>)) > 0,
          Line("  Capabilities: ",
               join(OrElse(entry.value.capabilities, <<>>), Chars(", "))))

\* the array `lines` of generate
generateLines(d) ==
  <<Chars("# agents.txt ") \o <<EmDash>> \o Chars(" AI Agent Capability Declaration"),
    Line("# Spec-Version: ", d.specVersion)>>
  \o When(Truthy(d.generatedAt), Line("# Generated-At: ", OrElse(d.generatedAt, <<>>)))
  \o <<<<>>>>
  \o <<Line("Site-Name: ", sanitize(d.site.name)),
       Line("Site-URL: ", sanitize(d.site.url))>>
  \o When(Truthy(d.site.description),
          Line("Description: ", sanitize(OrElse(d.site.description, <<>>))))
  \o When(Truthy(d.site.contact),
          Line("Contact: ", sanitize(OrElse(d.site.contact, <<>>))))
  \o When(Truthy(d.site.privacyPolicy),
          Line("Privacy-Policy: ", sanitize(OrElse(d.site.privacyPolicy, <<>>))))
  \o <<<<>>>>
  \o Flatten([k \in 1..Len(d.capabilities) |-> capabilityLines(d.capabilities[k])])
  \o [k \in 1..Len(d.access.allow) |-> Line("Allow: ", sanitize(d.access.allow[k]))]
  \o [k \in 1..Len(d.access.disallow) |->
        Line("Disallow: ", sanitize(d.access.disallow[k]))]
  \o <<<<>>>>
  \o Flatten([k \in 1..Len(d.agents) |-> agentLines(d.agents[k])])
  \o <<<<>>>>
  \o (IF IsSome(d.metadata)
        THEN [k \in 1..Len(Get(d.metadata)) |->
                Get(d.metadata)[k].key \o Chars(": ")
                \o sanitize(Get(d.metadata)[k].value)]
        ELSE <<>>)

\* lines.join("\n") + "\n"
generate(d) == join(generateLines(d), <<"\n">>) \o <<"\n">>

\* ------------------------------------------------------------ schema.ts
\* An issue is the path of the offending value; safeParse succeeds when
\* there is none.  Strings stand for z.string() values throughout.
Letters == {LowerLetters[k] : k \in 1..26} \cup {UpperLetters[k] : k \in 1..26}
SpecialSchemes ==
  {Chars("http"), Chars("https"), Chars("ws"), Chars("wss"), Chars("ftp")}

\* z.string().url(): new URL(s) accepts s, i.e. s is scheme ":" rest, and
\* names a host when the scheme is one of the special ones
isUrl(s) ==
  LET at == indexOf(s, ":")
      scheme == slice(s, 0, at)
      rest == sliceFrom(s, at + 1)
  IN  /\ at >= 1
      /\ scheme[1] \in Letters
      /\ \A k \in 1..Len(scheme) : scheme[k] \in Letters \cup Digits \cup {"+", "-", "."}
      /\ \A k \in 1..Len(s) : s[k] \notin WhiteSpace
      /\ toLowerCase(scheme) \in SpecialSchemes =>
           sliceFrom(rest, PrefixLen(rest, {"/", "\\"})) # <<>>

\* z.string().email(), as far as one "@" between a name and a dotted domain
isEmail(s) ==
  LET at == indexOf(s, "@")
      domain == sliceFrom(s, at + 1)
  IN  /\ at >= 1
      /\ indexOf(domain, "@") = -1
      /\ indexOf(domain, ".") >= 1
      /\ Last(domain) # "."
      /\ \A k \in 1..Len(s) : s[k] \notin WhiteSpace

\* z.string().datetime(): YYYY-MM-DDThh:mm:ss, optional fraction, then Z
isDateTime(s) ==
  LET shape == Chars("dddd-dd-ddTdd:dd:dd")
      frac == SubSeq(s, 20, Len(s) - 1)
  IN  /\ Len(s) >= 20
      /\ \A k \in 1..19 :
           IF shape[k] = "d" THEN s[k] \in Digits ELSE s[k] = shape[k]
      /\ s[Len(s)] = "Z"
      /\ frac # <<>> =>
           /\ frac[1] = "."
           /\ Len(frac) > 1
           /\ \A k \in 2..Len(frac) : frac[k] \in Digits

\* /^\d+\.\d+$/
isMajorMinor(s) ==
  LET at == indexOf(s, ".")
  IN  /\ at >= 1
      /\ at + 1 < Len(s)
      /\ \A k \in 1..Len(s) : k # at + 1 => s[k] \in Digits

\* /^[a-z0-9][a-z0-9-]*$/
isCapabilityId(s) ==
  LET lower == {LowerLetters[k] : k \in 1..26} \cup Digits
  IN  /\ s # <<>>
      /\ s[1] \in lower
      /\ \A k \in 1..Len(s) : s[k] \in lower \cup {"-"}

AuthTypes == VALID_AUTH_TYPES
Protocols == VALID_PROTOCOLS

Issue(cond, path) == IF cond THEN <<>> ELSE <<path>>
\* the issues of an optional value
Optional(o, check(_), path) ==
  IF IsSome(o) THEN Issue(check(Get(o)), path) ELSE <<>>
Under(prefix, issues) == [k \in 1..Len(issues) |-> prefix \o issues[k]]

RateLimitIssues(rl) ==
  Issue(rl.requests > 0, <<"requests">>)
  \o Issue(rl.window \in RateLimitWindows, <<"window">>)

AuthConfigIssues(auth) ==
  Issue(auth.type \in AuthTypes, <<"type">>)
  \o Optional(auth.tokenEndpoint, isUrl, <<"tokenEndpoint">>)
  \o Optional(auth.docsUrl, isUrl, <<"docsUrl">>)

ParameterDefIssues(param) ==
  Issue(Len(param.name) >= 1, <<"name">>)
  \o Issue(param.in \in validLocations, <<"in">>)
  \o Issue(Len(param.type) >= 1, <<"type">>)

CapabilityIssues(cap) ==
  Issue(Len(cap.id) >= 1, <<"id">>)
  \o Issue(Len(cap.id) <= 100, <<"id">>)
  \o Issue(isCapabilityId(cap.id), <<"id">>)
  \o Issue(Len(cap.description) >= 1, <<"description">>)
  \o Issue(Len(cap.description) <= 500, <<"description">>)
  \o Issue(isUrl(cap.endpoint), <<"endpoint">>)
  \o Issue(cap.protocol \in Protocols, <<"protocol">>)
  \o (IF IsSome(cap.auth)
        THEN Under(<<"auth">>, AuthConfigIssues(Get(cap.auth))) ELSE <<>>)
  \o (IF IsSome(cap.rateLimit)
        THEN Under(<<"rateLimit">>, RateLimitIssues(Get(cap.rateLimit))) ELSE <<>>)
  \o Optional(cap.openapi, isUrl, <<"openapi">>)
  \o (IF IsSome(cap.parameters)
        THEN Flatten([k \in 1..Len(Get(cap.parameters)) |->
                        Under(<<"parameters", ToString(k - 1)>>,
                              ParameterDefIssues(Get(cap.parameters)[k]))])
        ELSE <<>>)

SiteInfoIssues(info) ==
  Issue(Len(info.name) >= 1, <<"name">>)
  \o Issue(Len(info.name) <= 200, <<"name">>)
  \o Issue(isUrl(info.url), <<"url">>)
  \o Optional(info.description, LAMBDA v : Len(v) <= 500, <<"description">>)
  \o Optional(info.contact, isEmail, <<"contact">>)
  \o Optional(info.privacyPolicy, isUrl, <<"privacyPolicy">>)

AgentPolicyIssues(policy) ==
  IF IsSome(policy.rateLimit)
    THEN Under(<<"rateLimit">>, RateLimitIssues(Get(policy.rateLimit)))
    ELSE <<>>

\* AgentsTxtDocumentSchema.safeParse(d).error.issues, as paths
DocumentIssues(d) ==
  Issue(isMajorMinor(d.specVersion), <<"specVersion">>)
  \o Optional(d.generatedAt, isDateTime, <<"generatedAt">>)
  \o Under(<<"site">>, SiteInfoIssues(d.site))
  \o Flatten([k \in 1..Len(d.capabilities) |->
                Under(<<"capabilities", ToString(k - 1)>>,
                      CapabilityIssues(d.capabilities[k]))])
  \o Flatten([k \in 1..Len(d.agents) |->
                Under(<<"agents", d.agents[k].key>>,
                      AgentPolicyIssues(d.agents[k].value))])

\* z.object keeps the keys of its shape and strips the others; a stripped
\* key reads as undefined afterwards
AuthConfigData(auth) == [auth EXCEPT !.registrationEndpoint = None]

AuthConfigDataWithRegistration(auth) == auth

CapabilityData(cap) ==
  [cap EXCEPT !.auth = IF IsSome(@) THEN Some(AuthConfigData(Get(@))) ELSE None]

\* AgentsTxtDocumentSchema.safeParse(d).data
DocumentData(d) ==
  [d EXCEPT !.capabilities =
              [k \in 1..Len(d.capabilities) |-> CapabilityData(d.capabilities[k])]]

safeParse(d) ==
  IF DocumentIssues(d) = <<>>
    THEN [success |-> TRUE, data |-> Some(DocumentData(d)), issues |-> <<>>]
    ELSE [success |-> FALSE, data |-> None, issues |-> DocumentIssues(d)]

\* ------------------------------------- generator-json.ts, parser-json.ts
\* A JSON text is known by what JSON.parse makes of it and by its length:
\* syntax "invalid" makes JSON.parse throw, otherwise value is the object.
sizeOf(d) ==
  Len(d.specVersion) + Len(d.site.name) + Len(d.site.url)
  + Len(Flatten([k \in 1..Len(d.capabilities) |->
                   d.capabilities[k].id \o d.capabilities[k].endpoint]))

\* JSON.stringify(value, null, 2); the length counts the strings it must hold
stringify(value) == [syntax |-> "valid", value |-> Some(value), length |-> sizeOf(value)]

\* the returned text, or None when generateJSON throws
generateJSON(d) ==
  IF ~safeParse(d).success THEN None
  ELSE Some(stringify(Get(safeParse(d).data)))

jsonTooLargeInclusive(text) == text.length >= MAX_INPUT_SIZE

jsonTooLarge(text) == text.length > MAX_INPUT_SIZE

parseJSON(text) ==
  IF jsonTooLarge(text) THEN oversizeResult
  ELSE IF text.syntax = "invalid"
    THEN [success |-> FALSE, document |-> None,
          errors |-> <<[line |-> None, field |-> None, message |-> "Invalid JSON"]>>,
          warnings |-> <<>>]
  ELSE IF ~safeParse(Get(text.value)).success
    THEN [success |-> FALSE, document |-> None,
          errors |-> [k \in 1..Len(safeParse(Get(text.value)).issues) |->
                        [line |-> None,
                         field |-> Some(safeParse(Get(text.value)).issues[k]),
                         message |-> "schema"]],
          warnings |-> <<>>]
  ELSE [success |-> TRUE, document |-> safeParse(Get(text.value)).data,
        errors |-> <<>>, warnings |-> <<>>]

\* --------------------------------------------------------- validator.ts
\* lines 13-23
schemaErrors(d) ==
  [k \in 1..Len(DocumentIssues(d)) |->
     [path |-> DocumentIssues(d)[k], code |-> "SCHEMA_VIOLATION"]]

RECURSIVE duplicateErrorsFrom(_, _, _)
duplicateErrorsFrom(caps, k, capIds) ==
  IF k > Len(caps) THEN <<>>
  ELSE (IF caps[k].id \in capIds
          THEN <<[path |-> <<"capabilities", caps[k].id>>,
                  code |-> "DUPLICATE_CAPABILITY"]>>
          ELSE <<>>)
       \o duplicateErrorsFrom(caps, k + 1, capIds \cup {caps[k].id})

duplicateErrorsOnce(d) ==
  IF duplicateErrorsFrom(d.capabilities, 1, {}) = <<>> THEN <<>>
  ELSE <<duplicateErrorsFrom(d.capabilities, 1, {})[1]>>

\* lines 25-36
duplicateErrors(d) == duplicateErrorsFrom(d.capabilities, 1, {})

\* the set capIds once the loop of lines 27-36 is over
capIdsOf(d) == {d.capabilities[k].id : k \in 1..Len(d.capabilities)}

unknownRefErrorsOfPolicy(agentName, policy, capIds) ==
  IF IsSome(policy.capabilities)
    THEN LET unknown == SelectSeq(Get(policy.capabilities),
                                  LAMBDA capId : capId \notin capIds)
         IN  [k \in 1..Len(unknown) |->
                [path |-> <<"agents", agentName, "capabilities">>,
                 code |-> "UNKNOWN_CAPABILITY_REF"]]
    ELSE <<>>

unknownRefErrorsPerAgent(d) ==
  Flatten([k \in 1..Len(d.agents) |->
             IF unknownRefErrorsOfPolicy(d.agents[k].key, d.agents[k].value,
                                         capIdsOf(d)) = <<>>
               THEN <<>>
               ELSE <<unknownRefErrorsOfPolicy(d.agents[k].key, d.agents[k].value,
                                               capIdsOf(d))[1]>>])

\* lines 38-51
unknownRefErrors(d) ==
  Flatten([k \in 1..Len(d.agents) |->
             unknownRefErrorsOfPolicy(d.agents[k].key, d.agents[k].value,
                                      capIdsOf(d))])

\* lines 53-71
insecureWarnings(d) ==
  (IF d.site.url # <<>> /\ ~startsWith(d.site.url, Chars("https://"))
     THEN <<[path |-> <<"site", "url">>, code |-> "INSECURE_URL"]>>
     ELSE <<>>)
  \o Flatten([k \in 1..Len(d.capabilities) |->
                IF d.capabilities[k].endpoint # <<>>
                   /\ ~startsWith(d.capabilities[k].endpoint, Chars("https://"))
                  THEN <<[path |-> <<"capabilities", d.capabilities[k].id, "endpoint">>,
                          code |-> "INSECURE_ENDPOINT"]>>
                  ELSE <<>>])

validateIgnoringErrors(d) ==
  [valid |-> TRUE,
   errors |-> schemaErrors(d) \o duplicateErrors(d) \o unknownRefErrors(d),
   warnings |-> insecureWarnings(d)]

validate(d) ==
  LET errs == schemaErrors(d) \o duplicateErrors(d) \o unknownRefErrors(d)
  IN  [valid |-> Len(errs) = 0,
       errors |-> errs,
       warnings |-> insecureWarnings(d)]


\* ------------------------------------------------------------ client.ts
WELL_KNOWN_TXT == Chars("/.well-known/agents.txt")
FALLBACK_TXT == Chars("/agents.txt")
WELL_KNOWN_JSON == Chars("/.well-known/agents.json")
FALLBACK_JSON == Chars("/agents.json")

\* baseUrl.replace(/\/+$/, "")
stripTrailingSlashes(baseUrl) ==
  slice(baseUrl, 0, SetMax({0} \cup {k \in 1..Len(baseUrl) : baseUrl[k] # "/"}))

pathOfFallbackFirst(format, attempt) ==
  IF format = "txt"
    THEN (IF attempt = 1 THEN FALLBACK_TXT ELSE WELL_KNOWN_TXT)
    ELSE (IF attempt = 1 THEN FALLBACK_JSON ELSE WELL_KNOWN_JSON)

\* the path discover (format "txt") or discoverJSON (format "json") asks
\* for at the given attempt
pathOf(format, attempt) ==
  IF format = "txt"
    THEN (IF attempt = 1 THEN WELL_KNOWN_TXT ELSE FALLBACK_TXT)
    ELSE (IF attempt = 1 THEN WELL_KNOWN_JSON ELSE FALLBACK_JSON)

\* fetch(url) can reach the network only for an http or https URL; for any
\* other argument its promise rejects with a TypeError
schemeOf(url) == toLowerCase(slice(url, 0, indexOf(url, ":")))
fetchable(url) == isUrl(url) /\ schemeOf(url) \in {Chars("http"), Chars("https")}

setTimeoutNever == "none"

\* line 73: the timer that aborts the request is armed
setTimeout == "armed"

clearTimeoutForgotten(timers, n) == timers

\* line 87: clearTimeout(timer), in the finally clause of the n-th request
clearTimeout(timers, n) == [timers EXCEPT ![n] = "cleared"]

responseOkAlways(status) == TRUE

\* response.ok
responseOk(status) == status >= 200 /\ status <= 299

\* fetchText, line 81
httpFailure(status) ==
  [ok |-> FALSE, text |-> None, error |-> Some("HTTP " \o ToString(status))]

\* fetchText, line 82
fetchSuccess(text) == [ok |-> TRUE, text |-> Some(text), error |-> None]

\* fetchText, lines 83-85
fetchFailure(message) == [ok |-> FALSE, text |-> None, error |-> Some(message)]

parserForReinterpreting(format, text) ==
  LET r == IF format = "txt" THEN parse(text) ELSE parseJSON(text)
  IN  IF r.success THEN r
      ELSE [success |-> FALSE, document |-> None,
            errors |-> <<[line |-> None, field |-> None,
                          message |-> "Invalid manifest"]>>,
            warnings |-> <<>>]

\* discover hands the body to parse, discoverJSON to parseJSON
parserFor(format, text) ==
  IF format = "txt" THEN parse(text) ELSE parseJSON(text)

\* lines 44-48 and 64-68; at and cause are the two holes of the message
\* template, cause being fallback.error ?? primary.error ?? "not found"
notFound(format, at, first, second) ==
  [success |-> FALSE, document |-> None,
   errors |-> <<[line |-> None, field |-> None,
                 message |-> IF format = "txt" THEN "No agents.txt found at"
                                               ELSE "No agents.json found at",
                 at |-> at,
                 cause |-> OrElse(second.error, OrElse(first.error, "not found"))]>>,
   warnings |-> <<>>]

\* ------------------------------------------------------ rate-limiter.ts
\* the defaults of the constructor, lines 24-26
DefaultWindowMs == 60000
DefaultLimit == 60
DefaultMaxEntries == 10000

\* a JavaScript number: an integer, or NaN
Num(n) == [nan |-> FALSE, n |-> n]
NaN == [nan |-> TRUE, n |-> 0]
\* a - b, where b is a number or undefined (None)
minus(a, b) == IF IsSome(b) THEN Num(a - Get(b)) ELSE NaN
\* a - x for a number x
minusNumber(a, x) == IF x.nan THEN NaN ELSE Num(a - x.n)

\* this.windows is a Map: each key has an entry (Some) or none (None)
has(windows, key) == IsSome(windows[key])
size(windows) == Cardinality({key \in DOMAIN windows : IsSome(windows[key])})
set(windows, key, timestamps) == [windows EXCEPT ![key] = Some(timestamps)]
deleteNothing(windows, key) == windows

delete(windows, key) == [windows EXCEPT ![key] = None]

inWindowInclusive(timestamps, now, windowMs) ==
  SelectSeq(timestamps, LAMBDA t : now - t <= windowMs)

\* timestamps.filter((t) => now - t < this.windowMs)
inWindow(timestamps, now, windowMs) ==
  SelectSeq(timestamps, LAMBDA t : now - t < windowMs)
\* timestamps[0], undefined for an empty array
first(timestamps) == IF timestamps = <<>> THEN None ELSE Some(timestamps[1])

atCapacityBeyond(this, key) ==
  ~has(this.windows, key) /\ size(this.windows) > this.maxEntries

\* line 41
atCapacity(this, key) ==
  ~has(this.windows, key) /\ size(this.windows) >= this.maxEntries

exhaustedBeyond(timestamps, effectiveLimit) == Len(timestamps) > effectiveLimit

\* line 53
exhausted(timestamps, effectiveLimit) == Len(timestamps) >= effectiveLimit

\* check(key, limit) at time now: the windows afterwards and the value
\* returned, lines 37-60
check(this, key, limit, now) ==
  LET effectiveLimit == OrElse(limit, this.defaultLimit)
      entry == IF has(this.windows, key) THEN Get(this.windows[key]) ELSE <<>>
      timestamps == inWindow(entry, now, this.windowMs)
  IN  IF atCapacity(this, key)
        THEN [windows |-> this.windows,
              returned |-> [allowed |-> FALSE, remaining |-> 0,
                            retryAfterMs |-> Some(Num(this.windowMs))]]
      ELSE IF exhausted(timestamps, effectiveLimit)
        THEN [windows |-> set(this.windows, key, timestamps),
              returned |-> [allowed |-> FALSE, remaining |-> 0,
                            retryAfterMs |->
                              Some(minusNumber(this.windowMs,
                                               minus(now, first(timestamps))))]]
      ELSE [windows |-> set(this.windows, key, Append(timestamps, now)),
            returned |-> [allowed |-> TRUE,
                          remaining |-> effectiveLimit - (Len(timestamps) + 1),
                          retryAfterMs |-> None]]

\* the callback of setInterval, lines 28-34, run at time now
RECURSIVE sweepKeys(_, _, _, _)
sweepKeys(windows, keys, now, windowMs) ==
  IF keys = {} THEN windows
  ELSE LET key == CHOOSE k \in keys : TRUE
           timestamps == inWindow(Get(windows[key]), now, windowMs)
           swept == IF timestamps = <<>> THEN delete(windows, key)
                    ELSE set(windows, key, timestamps)
       IN  sweepKeys(swept, keys \ {key}, now, windowMs)

sweepClearing(this, now) == [key \in DOMAIN this.windows |-> None]

sweep(this, now) ==
  sweepKeys(this.windows, {key \in DOMAIN this.windows : has(this.windows, key)},
            now, this.windowMs)

\* ======================================================== the state machine
VARIABLES
  \* parse: argument, locals of lines 29-55 and 83, and the returned value
  input, lines, i,
  specVersion, generatedAt, site, capabilities, allowPaths, disallowPaths,
  agents, metadata, state, currentCapability, currentAgentName,
  currentAgentPolicy, errors, warnings,
  result,
  \* the document handed to generate, generateJSON or validate
  doc,
  \* the text handed to parseJSON and its returned value
  json, jsonResult,
  \* the value returned by validate
  validation,
  \* what the caller started from: "text", "json" or "document"
  origin,
  \* 1 while the caller's own input is processed, 2 once the input has been
  \* generated from the document
  pass,
  pc,
  \* discover / discoverJSON: which of the two was called, its argument and
  \* locals, and the returned value
  format, baseUrl, normalized, primary, fallback, discovered,
  \* fetchText: the attempt under way (1 well-known, 2 fallback), its timer
  \* and its response once the headers are in
  attempt, timer, response,
  \* the network as the client drives it: the URLs given to fetch, the
  \* number of pending requests, how each request ended, and the bodies
  \* given to a parser
  requests, inflight, outcomes, handed,
  \* the timer each call of fetchText has created, by request, and the
  \* timers that have fired
  timers, aborts,
  cpc,
  \* createAgentsTxtServer: where the call stands, what discoverJSON
  \* returned and the URLs it gave to fetch, and the value or the error the
  \* call ended with
  mcp,
  \* sanitizeValue: the arguments of a call, and the values returned by the
  \* call and by the call that is given the returned value again
  sanitizeCall,
  \* RateLimiter: its fields, Date.now(), and the calls of check so far with
  \* the values they returned
  windows, windowMs, defaultLimit, maxEntries, cleanupTimer, clock, served

frameVars ==
  <<specVersion, generatedAt, site, capabilities, allowPaths, disallowPaths,
    agents, metadata, state, currentCapability, currentAgentName,
    currentAgentPolicy, errors, warnings>>
parseVars == <<input, lines, i, frameVars, result>>
jsonVars == <<json, jsonResult>>
clientVars ==
  <<format, baseUrl, normalized, primary, fallback, discovered, attempt, timer,
    response, requests, inflight, outcomes, handed, timers, aborts, cpc>>
limiterVars ==
  <<windows, windowMs, defaultLimit, maxEntries, cleanupTimer, clock, served>>
vars ==
  <<parseVars, doc, jsonVars, validation, origin, pass, pc, clientVars,
    limiterVars, mcp, sanitizeCall>>

\* the locals of parse as one record, and back
Frame ==
  [specVersion |-> specVersion, generatedAt |-> generatedAt, site |-> site,
   capabilities |-> capabilities, allowPaths |-> allowPaths,
   disallowPaths |-> disallowPaths, agents |-> agents, metadata |-> metadata,
   state |-> state, currentCapability |-> currentCapability,
   currentAgentName |-> currentAgentName,
   currentAgentPolicy |-> currentAgentPolicy,
   errors |-> errors, warnings |-> warnings]

FrameIs(f) ==
  /\ specVersion = f.specVersion
  /\ generatedAt = f.generatedAt
  /\ site = f.site
  /\ capabilities = f.capabilities
  /\ allowPaths = f.allowPaths
  /\ disallowPaths = f.disallowPaths
  /\ agents = f.agents
  /\ metadata = f.metadata
  /\ state = f.state
  /\ currentCapability = f.currentCapability
  /\ currentAgentName = f.currentAgentName
  /\ currentAgentPolicy = f.currentAgentPolicy
  /\ errors = f.errors
  /\ warnings = f.warnings

FrameBecomes(f) ==
  /\ specVersion' = f.specVersion
  /\ generatedAt' = f.generatedAt
  /\ site' = f.site
  /\ capabilities' = f.capabilities
  /\ allowPaths' = f.allowPaths
  /\ disallowPaths' = f.disallowPaths
  /\ agents' = f.agents
  /\ metadata' = f.metadata
  /\ state' = f.state
  /\ currentCapability' = f.currentCapability
  /\ currentAgentName' = f.currentAgentName
  /\ currentAgentPolicy' = f.currentAgentPolicy
  /\ errors' = f.errors
  /\ warnings' = f.warnings

\* parse, lines 29-40: the size check, then the split
ParseBegin ==
  /\ pc = "begin"
  /\ IF tooLarge(input)
       THEN /\ result' = Some(oversizeResult)
            /\ pc' = "done"
            /\ UNCHANGED <<lines, i, frameVars>>
       ELSE /\ lines' = splitLines(input.text)
            /\ i' = 0
            /\ FrameBecomes(NewFrame)
            /\ pc' = "scan"
            /\ UNCHANGED result
  /\ UNCHANGED <<input, doc, jsonVars, validation, origin, pass, clientVars, limiterVars, mcp, sanitizeCall>>

ScanStep(kind) ==
  /\ pc = "scan"
  /\ i < Len(lines)
  /\ LineKind(Frame, lines[i + 1]) = kind
  /\ FrameBecomes(ScanLine(Frame, lines[i + 1], i + 1))
  /\ i' = i + 1
  /\ UNCHANGED <<input, lines, result, doc, jsonVars, validation, origin, pass, pc, clientVars, limiterVars, mcp, sanitizeCall>>

\* one iteration of the loop, by the branch that handles lines[i]
ScanSkipped == ScanStep("skip")
ScanCapabilityField == ScanStep("capability")
ScanAgentField == ScanStep("agent")
ScanTopLevel == ScanStep("top")

\* parse, lines 270-301: the loop is over
ParseFinish ==
  /\ pc = "scan"
  /\ i >= Len(lines)
  /\ FrameBecomes(requiredFields(flushAtEnd(Frame)))
  /\ result' = Some(Finish(Frame))
  /\ pc' = "done"
  /\ UNCHANGED <<input, lines, i, doc, jsonVars, validation, origin, pass, clientVars, limiterVars, mcp, sanitizeCall>>

\* the caller keeps the document of a successful parse and regenerates the
\* text from it (roundtrip.test.ts)
KeepDocument ==
  /\ pc = "done"
  /\ pass = 1
  /\ origin = "text"
  /\ Get(result).success
  /\ doc' = Get(result).document
  /\ pc' = "generate"
  /\ UNCHANGED <<parseVars, jsonVars, validation, origin, pass, clientVars, limiterVars, mcp, sanitizeCall>>

\* generate(doc), whose text is then handed to parse
Generate ==
  /\ pc = "generate"
  /\ IsSome(doc)
  /\ input' = Text(generate(Get(doc)))
  /\ lines' = <<>>
  /\ i' = 0
  /\ FrameBecomes(NewFrame)
  /\ result' = None
  /\ pass' = 2
  /\ pc' = "begin"
  /\ UNCHANGED <<doc, jsonVars, validation, origin, clientVars, limiterVars, mcp, sanitizeCall>>

\* the caller keeps the document of a successful parse to serialise it
KeepForJSON ==
  /\ pc = "done"
  /\ pass = 1
  /\ origin = "text"
  /\ Get(result).success
  /\ doc' = Get(result).document
  /\ pc' = "generateJSON"
  /\ UNCHANGED <<parseVars, jsonVars, validation, origin, pass, clientVars, limiterVars, mcp, sanitizeCall>>

\* parseJSON(json)
ParseJSON ==
  /\ pc = "parseJSON"
  /\ IsSome(json)
  /\ jsonResult' = Some(parseJSON(Get(json)))
  /\ pc' = "jsonDone"
  /\ UNCHANGED <<parseVars, doc, json, validation, origin, pass, clientVars, limiterVars, mcp, sanitizeCall>>

\* the caller keeps the document of a successful parseJSON to serialise it
KeepJSONDocument ==
  /\ pc = "jsonDone"
  /\ pass = 1
  /\ origin = "json"
  /\ Get(jsonResult).success
  /\ doc' = Get(jsonResult).document
  /\ pc' = "generateJSON"
  /\ UNCHANGED <<parseVars, jsonVars, validation, origin, pass, clientVars, limiterVars, mcp, sanitizeCall>>

\* generateJSON(doc), whose text is then handed to parseJSON unless it throws
GenerateJSON ==
  /\ pc = "generateJSON"
  /\ IsSome(doc)
  /\ json' = generateJSON(Get(doc))
  /\ jsonResult' = None
  /\ pass' = 2
  /\ pc' = IF IsSome(generateJSON(Get(doc))) THEN "parseJSON" ELSE "thrown"
  /\ UNCHANGED <<parseVars, doc, validation, origin, clientVars, limiterVars, mcp, sanitizeCall>>

\* validate(doc)
Validate ==
  /\ pc = "validate"
  /\ IsSome(doc)
  /\ validation' = Some(validate(Get(doc)))
  /\ pc' = "validated"
  /\ UNCHANGED <<parseVars, doc, jsonVars, origin, pass, clientVars, limiterVars, mcp, sanitizeCall>>

NextParse ==
  \/ ParseBegin
  \/ ScanSkipped
  \/ ScanCapabilityField
  \/ ScanAgentField
  \/ ScanTopLevel
  \/ ParseFinish

\* ------------------------------------------------------- inputs of parse
\* the two required lines, as a manifest usually starts
HeaderLines == <<Chars("Site-Name: a"), Chars("Site-URL: https://a")>>
Headers ==
  {<<>>, <<HeaderLines[1]>>, HeaderLines,
   <<Chars("Site-Name:"), HeaderLines[2]>>}

BodyLines ==
  {Chars("Capability: c"), Chars("Capability: d"), Chars("  Endpoint: e"),
   Chars("Agent: g"), Chars("  Capabilities: c"), <<>>, Chars("# x"),
   Chars("Site-URL: u"), Chars("  Site-Name: b")}

\* line terminator and whether the last line is terminated too
Terminators ==
  {[eol |-> <<"\n">>, final |-> FALSE], [eol |-> <<"\r", "\n">>, final |-> TRUE]}

SeqsUpTo(S, n) == UNION {[1..k -> S] : k \in 0..n}

TextOf(ls, t) == join(ls, t.eol) \o (IF t.final THEN t.eol ELSE <<>>)

ParseTexts ==
  {TextOf(h \o b, t) : h \in Headers, b \in SeqsUpTo(BodyLines, MaxLines),
                       t \in Terminators}

\* inputs at and just above the size limit
LimitInputs ==
  {[text |-> TextOf(h, t), pad |-> MAX_INPUT_SIZE - Len(TextOf(h, t)) + over] :
     h \in Headers, t \in Terminators, over \in {0, 1}}

ParseInputs == {Text(t) : t \in ParseTexts} \cup LimitInputs

\* the keys check is called with (the middleware passes the address of the
\* peer)
Keys == {"a", "b"}

\* no RateLimiter has been constructed
LimiterIdle ==
  /\ windows = [key \in Keys |-> None]
  /\ windowMs = DefaultWindowMs
  /\ defaultLimit = DefaultLimit
  /\ maxEntries = DefaultMaxEntries
  /\ cleanupTimer = "none"
  /\ clock = 0
  /\ served = <<>>

\* createAgentsTxtServer has not been called
ServerIdle ==
  mcp = [pc |-> "unused", json |-> <<>>, asked |-> <<>>, returned |-> <<>>,
         thrown |-> <<>>]

\* sanitizeValue has not been called
SanitizeIdle ==
  sanitizeCall = [value |-> <<>>, maxLength |-> 0, returned |-> <<>>, pc |-> "unused"]

ClientIdle ==
  /\ format = "txt"
  /\ baseUrl = <<>>
  /\ normalized = <<>>
  /\ primary = None
  /\ fallback = None
  /\ discovered = None
  /\ attempt = 0
  /\ timer = "none"
  /\ response = None
  /\ requests = <<>>
  /\ inflight = 0
  /\ outcomes = <<>>
  /\ handed = <<>>
  /\ timers = <<>>
  /\ aborts = <<>>
  /\ cpc = "unused"

Idle ==
  /\ ClientIdle
  /\ LimiterIdle
  /\ ServerIdle
  /\ SanitizeIdle
  /\ lines = <<>>
  /\ i = 0
  /\ FrameIs(NewFrame)
  /\ result = None
  /\ json = None
  /\ jsonResult = None
  /\ validation = None
  /\ pass = 1

InitParse ==
  /\ input \in ParseInputs
  /\ doc = None
  /\ Idle
  /\ origin = "text"
  /\ pc = "begin"

SpecParse == InitParse /\ [][NextParse]_vars

NextRoundTrip ==
  \/ NextParse
  \/ KeepDocument
  \/ Generate

\* manifests that parse, some of them with a control character in a value
RoundTripHeaders ==
  {HeaderLines,
   <<Chars("Site-Name: a\tb"), HeaderLines[2]>>,
   HeaderLines \o <<Chars("Capability: c"), Chars("  Endpoint: https://a/c"),
                    Chars("  Protocol: MCP")>>}

RoundTripLines ==
  {Chars("Capability: d"), Chars("  Endpoint: e\ff"), Chars("  Protocol: P"),
   Chars("Agent: g"), Chars("  Rate-Limit: 5/minute"),
   Chars("  Capabilities: c, d"), Chars("X: v")}

RoundTripInputs ==
  {Text(join(h \o b, <<"\n">>)) :
     h \in RoundTripHeaders, b \in SeqsUpTo(RoundTripLines, MaxLines)}

InitRoundTrip ==
  /\ input \in RoundTripInputs
  /\ doc = None
  /\ Idle
  /\ origin = "text"
  /\ pc = "begin"

SpecRoundTrip == InitRoundTrip /\ [][NextRoundTrip]_vars

\* documents handed to generate, with free text that tries to forge lines
FreeTexts ==
  {Chars("a"), Chars("Evil\nFake-Header: injected"),
   Chars("E\r\nCapability: z"), Chars("x\fy\rAgent: q")}

GenDocs ==
  {[specVersion |-> Chars("1.0"),
    generatedAt |-> None,
    site |-> [name |-> siteName, url |-> Chars("https://a"),
              description |-> Some(siteDescription), contact |-> None,
              privacyPolicy |-> None],
    capabilities |->
      <<[id |-> Chars("c"), description |-> capDescription,
         endpoint |-> Chars("https://a/c"), method |-> None,
         protocol |-> Chars("REST"), auth |-> None, rateLimit |-> None,
         openapi |-> None,
         parameters |->
           Some(<<[name |-> Chars("q"), in |-> Chars("query"),
                   type |-> Chars("string"), required |-> TRUE,
                   description |-> Some(paramDescription)]>>),
         scopes |-> None]>>,
    access |-> [allow |-> <<Chars("*")>>, disallow |-> <<>>],
    agents |-> <<[key |-> Chars("*"), value |-> NewPolicy]>>,
    metadata |-> Some(<<[key |-> Chars("X"), value |-> metaValue]>>)] :
     siteName \in FreeTexts, siteDescription \in FreeTexts,
     capDescription \in FreeTexts, paramDescription \in FreeTexts,
     metaValue \in FreeTexts}

InitGenerate ==
  /\ doc \in {Some(d) : d \in GenDocs}
  /\ input = Text(<<>>)
  /\ Idle
  /\ origin = "document"
  /\ pc = "generate"

NextGenerate ==
  \/ Generate
  \/ ParseBegin
  \/ ScanSkipped
  \/ ScanCapabilityField
  \/ ScanAgentField
  \/ ScanTopLevel
  \/ ParseFinish

SpecGenerate == InitGenerate /\ [][NextGenerate]_vars

\* ------------------------------------------- inputs of the JSON codec
JsonHeaders ==
  {HeaderLines,
   HeaderLines \o <<Chars("Capability: c"), Chars("  Endpoint: https://a/c"),
                    Chars("  Description: x")>>}

JsonLines ==
  {Chars("  Registration-Endpoint: https://a/r"), Chars("  Auth: oauth2"),
   Chars("  Rate-Limit: 5/minute"), Chars("Agent: g"), Chars("Capability: d"),
   Chars("# Generated: 2026-01-15T12:00:00.000Z")}

JsonTextInputs ==
  {Text(join(h \o b, <<"\n">>)) :
     h \in JsonHeaders, b \in SeqsUpTo(JsonLines, MaxLines)}

JsonDocs ==
  {[specVersion |-> Chars("1.0"),
    generatedAt |-> at,
    site |-> [name |-> Chars("a"), url |-> Chars("https://a"),
              description |-> None, contact |-> None, privacyPolicy |-> None],
    capabilities |->
      <<[id |-> id, description |-> Chars("x"), endpoint |-> endpoint,
         method |-> None, protocol |-> Chars("REST"), auth |-> auth,
         rateLimit |-> rl, openapi |-> None, parameters |-> None,
         scopes |-> None]>>,
    access |-> [allow |-> <<Chars("*")>>, disallow |-> <<>>],
    agents |-> <<[key |-> Chars("*"), value |-> NewPolicy]>>,
    metadata |-> None] :
     at \in {None, Some(Chars("2026-01-15T12:00:00.000Z")), Some(Chars("2026"))},
     id \in {Chars("c"), Chars("C")},
     endpoint \in {Chars("https://a/c"), Chars("e")},
     auth \in {None, Some(NewAuth(Chars("oauth2"))),
               Some([NewAuth(Chars("oauth2")) EXCEPT
                       !.registrationEndpoint = Some(Chars("https://a/r"))])},
     rl \in {None, Some([requests |-> 5, window |-> Chars("minute")]),
             Some([requests |-> 0, window |-> Chars("minute")])}}

JsonInputs ==
  {[syntax |-> "valid", value |-> Some(d), length |-> n] :
     d \in JsonDocs, n \in {100, MAX_INPUT_SIZE, MAX_INPUT_SIZE + 1}}
  \cup {[syntax |-> "invalid", value |-> None, length |-> n] :
          n \in {100, MAX_INPUT_SIZE, MAX_INPUT_SIZE + 1}}

InitJSONText ==
  /\ input \in JsonTextInputs
  /\ doc = None
  /\ Idle
  /\ origin = "text"
  /\ pc = "begin"

InitJSONInput ==
  /\ ClientIdle
  /\ LimiterIdle
  /\ ServerIdle
  /\ SanitizeIdle
  /\ input = Text(<<>>)
  /\ doc = None
  /\ lines = <<>>
  /\ i = 0
  /\ FrameIs(NewFrame)
  /\ result = None
  /\ json \in {Some(t) : t \in JsonInputs}
  /\ jsonResult = None
  /\ validation = None
  /\ pass = 1
  /\ origin = "json"
  /\ pc = "parseJSON"

InitJSON == InitJSONText \/ InitJSONInput

NextJSON ==
  \/ NextParse
  \/ KeepForJSON
  \/ ParseJSON
  \/ KeepJSONDocument
  \/ GenerateJSON

SpecJSON == InitJSON /\ [][NextJSON]_vars

\* ------------------------------------------------- inputs of validate
CapIds == {Chars("a"), Chars("b")}
RefIds == {Chars("a"), Chars("b"), Chars("z")}

ValCapability(id) ==
  [id |-> id, description |-> Chars("x"), endpoint |-> Chars("https://a/c"),
   method |-> None, protocol |-> Chars("REST"), auth |-> None,
   rateLimit |-> None, openapi |-> None, parameters |-> None, scopes |-> None]

Policies ==
  {[rateLimit |-> None, capabilities |-> c] :
     c \in {None} \cup {Some(r) : r \in SeqsUpTo(RefIds, MaxRefs)}}

ValDocs ==
  {[specVersion |-> Chars("1.0"),
    generatedAt |-> None,
    site |-> [name |-> Chars("a"), url |-> url,
              description |-> None, contact |-> None, privacyPolicy |-> None],
    capabilities |-> [k \in 1..Len(ids) |-> ValCapability(ids[k])],
    access |-> [allow |-> <<Chars("*")>>, disallow |-> <<>>],
    agents |-> <<[key |-> Chars("*"), value |-> all],
                 [key |-> Chars("g"), value |-> one]>>,
    metadata |-> None] :
     url \in {Chars("https://a"), Chars("http://a")},
     ids \in SeqsUpTo(CapIds, MaxCaps),
     all \in Policies,
     one \in {NewPolicy, [rateLimit |-> None, capabilities |-> Some(<<Chars("z")>>)]}}

InitValidate ==
  /\ input = Text(<<>>)
  /\ doc \in {Some(d) : d \in ValDocs}
  /\ Idle
  /\ origin = "document"
  /\ pc = "validate"

NextValidate == Validate

SpecValidate == InitValidate /\ [][NextValidate]_vars

\* ------------------------------------ every function of the core at once
InitCore == InitParse \/ InitJSONInput \/ InitValidate

NextCore ==
  \/ NextParse
  \/ ParseJSON
  \/ Validate

SpecCore == InitCore /\ [][NextCore]_vars

\* ------------------------------------------------ discover, discoverJSON
\* Each action runs the client from one await to the next: a settled
\* fetchText (its finally clause included) and what discover does with the
\* value, up to the next call of fetch or the return.
parseVarsAll ==
  <<parseVars, doc, jsonVars, validation, origin, pass, pc, limiterVars, mcp, sanitizeCall>>

\* fetchText, lines 72-79: a controller, a timer, and the call of fetch
StartFetch(n) ==
  /\ attempt' = n
  /\ timer' = setTimeout
  /\ timers' = Append(timers, setTimeout)
  /\ response' = None
  /\ requests' = Append(requests, normalized' \o pathOf(format, n))
  /\ inflight' = inflight + 1

\* lines 33-37 and 55-58: the call, up to the first await
Discover ==
  /\ cpc = "call"
  /\ normalized' = stripTrailingSlashes(baseUrl)
  /\ StartFetch(1)
  /\ cpc' = "awaitResponse"
  /\ UNCHANGED <<format, baseUrl, primary, fallback, discovered, outcomes, handed,
                 aborts>>
  /\ UNCHANGED parseVarsAll

\* fetchText has returned r = { ok: false, error } for the attempt under way
\* (the request is over and the finally clause has cleared its timer);
\* discover goes on from line 39 to the fallback, or from line 44 to the
\* failure result
Settle(r, outcome) ==
  /\ ~r.ok
  /\ outcomes' = Append(outcomes, outcome)
  /\ IF attempt = 1
       THEN /\ primary' = Some(r)
            /\ attempt' = 2
            /\ timer' = setTimeout
            /\ timers' = Append(clearTimeout(timers, attempt), setTimeout)
            /\ response' = None
            /\ requests' = Append(requests, normalized \o pathOf(format, 2))
            /\ inflight' = (inflight - 1) + 1
            /\ cpc' = "awaitResponse"
            /\ UNCHANGED <<fallback, discovered, handed, normalized>>
       ELSE /\ fallback' = Some(r)
            /\ discovered' = Some(notFound(format, normalized, Get(primary), r))
            /\ timer' = "cleared"
            /\ timers' = clearTimeout(timers, attempt)
            /\ response' = None
            /\ inflight' = inflight - 1
            /\ cpc' = "returned"
            /\ UNCHANGED <<attempt, requests, primary, handed, normalized>>
  /\ UNCHANGED <<format, baseUrl>>
  /\ UNCHANGED parseVarsAll

\* fetchText has returned r = { ok: true, text }; lines 38 and 42 return
\* what the parser makes of the text
Hand(r, outcome) ==
  /\ r.ok
  /\ outcomes' = Append(outcomes, outcome)
  /\ discovered' = Some(parserFor(format, Get(r.text)))
  /\ handed' = Append(handed, Get(r.text))
  /\ IF attempt = 1
       THEN primary' = Some(r) /\ UNCHANGED fallback
       ELSE fallback' = Some(r) /\ UNCHANGED primary
  /\ timer' = "cleared"
  /\ timers' = clearTimeout(timers, attempt)
  /\ response' = None
  /\ inflight' = inflight - 1
  /\ cpc' = "returned"
  /\ UNCHANGED <<attempt, requests, normalized>>
  /\ UNCHANGED <<format, baseUrl>>
  /\ UNCHANGED parseVarsAll

Statuses == {200, 404, 500}
ContentLengths == {None, Some(64), Some(MAX_INPUT_SIZE + 1)}

\* line 76 resolves: the status line and the headers of the response
Respond ==
  /\ cpc = "awaitResponse"
  /\ fetchable(Last(requests))
  /\ UNCHANGED aborts
  /\ \E status \in Statuses, contentLength \in ContentLengths :
       IF responseOk(status)
         THEN /\ response' = Some([status |-> status, contentLength |-> contentLength])
              /\ cpc' = "awaitBody"
              /\ UNCHANGED <<format, baseUrl, normalized, primary, fallback,
                             discovered, attempt, timer, requests, inflight,
                             outcomes, handed, timers>>
              /\ UNCHANGED parseVarsAll
         ELSE Settle(httpFailure(status),
                     [kind |-> "status", status |-> status,
                      contentLength |-> contentLength, body |-> None])

\* line 76 rejects: the connection failed, or the argument is no http(s) URL
FetchRejects ==
  /\ cpc = "awaitResponse"
  /\ UNCHANGED aborts
  /\ Settle(fetchFailure("fetch failed"),
            [kind |-> IF fetchable(Last(requests)) THEN "refused" ELSE "unsupported",
             status |-> 0, contentLength |-> None, body |-> None])

\* line 73: the timer fires, the controller aborts, the pending promise
\* (fetch or response.text) rejects
\* An armed timer of a request that is over (none, when every exit clears
\* its timer) aborts a controller nothing listens to any more.
TimerFires ==
  \E n \in DOMAIN timers :
    /\ timers[n] = "armed"
    /\ aborts' = Append(aborts, n)
    /\ IF n = attempt /\ cpc \in {"awaitResponse", "awaitBody"}
         THEN /\ fetchable(Last(requests))
              /\ timer = "armed"
              /\ Settle(fetchFailure("This operation was aborted"),
                        [kind |-> "timeout", status |-> 0, contentLength |-> None,
                         body |-> None])
         ELSE /\ timers' = [timers EXCEPT ![n] = "fired"]
              /\ UNCHANGED <<format, baseUrl, normalized, primary, fallback,
                             discovered, attempt, timer, response, requests,
                             inflight, outcomes, handed, cpc>>
              /\ UNCHANGED parseVarsAll

\* line 82 rejects: the connection broke while the body was read
BodyFails ==
  /\ cpc = "awaitBody"
  /\ UNCHANGED aborts
  /\ Settle(fetchFailure("terminated"),
            [kind |-> "bodyError", status |-> Get(response).status,
             contentLength |-> Get(response).contentLength, body |-> None])

TextBodies ==
  {Text(Chars("Site-Name: a\nSite-URL: https://a\nCapability: c")),
   Text(Chars("<html>")),
   Text(<<>>),
   [text |-> Chars("Site-Name: a\nSite-URL: https://a"),
    pad |-> MAX_INPUT_SIZE + 1 - 31]}

JsonBodies ==
  {t \in JsonInputs :
     /\ t.length \in {100, MAX_INPUT_SIZE + 1}
     /\ t.syntax = "valid" =>
          /\ Get(t.value).generatedAt = None
          /\ Get(t.value).capabilities[1].auth = None
          /\ Get(t.value).capabilities[1].rateLimit = None
          /\ Get(t.value).capabilities[1].endpoint = Chars("https://a/c")}
  \cup {[syntax |-> "invalid", value |-> None, length |-> 0]}

bodyLength(body) == IF format = "txt" THEN inputLength(body) ELSE body.length

\* line 82 resolves: the whole body has been read and decoded
BodyArrives ==
  /\ cpc = "awaitBody"
  /\ UNCHANGED aborts
  /\ \E body \in (IF format = "txt" THEN TextBodies ELSE JsonBodies) :
       Hand(fetchSuccess(body),
              [kind |-> "body", status |-> Get(response).status,
               contentLength |-> Get(response).contentLength, body |-> Some(body)])

NextDiscover ==
  \/ Discover
  \/ Respond
  \/ FetchRejects
  \/ TimerFires
  \/ BodyFails
  \/ BodyArrives

BaseUrls ==
  {Chars("https://a"), Chars("http://a/"), Chars("https://a//"),
   Chars("ftp://a"), Chars("file:///etc/passwd"), Chars("javascript:alert(1)"),
   Chars("not a url"), <<>>}

InitDiscover ==
  /\ input = Text(<<>>)
  /\ doc = None
  /\ lines = <<>>
  /\ i = 0
  /\ FrameIs(NewFrame)
  /\ result = None
  /\ json = None
  /\ jsonResult = None
  /\ validation = None
  /\ pass = 1
  /\ origin = "url"
  /\ pc = "unused"
  /\ format \in {"txt", "json"}
  /\ baseUrl \in BaseUrls
  /\ normalized = <<>>
  /\ primary = None
  /\ fallback = None
  /\ discovered = None
  /\ attempt = 0
  /\ timer = "none"
  /\ response = None
  /\ requests = <<>>
  /\ inflight = 0
  /\ outcomes = <<>>
  /\ handed = <<>>
  /\ timers = <<>>
  /\ aborts = <<>>
  /\ cpc = "call"
  /\ LimiterIdle
  /\ ServerIdle
  /\ SanitizeIdle

SpecDiscover == InitDiscover /\ [][NextDiscover]_vars

\* the event loop runs a due timer callback and a settled promise's
\* continuation; the network owes nothing
SpecDiscoverLive ==
  /\ InitDiscover
  /\ [][NextDiscover]_vars
  /\ WF_vars(Discover)
  /\ WF_vars(TimerFires)

\* ------------------------------------------------------------ RateLimiter
MaxChecks == 3
MaxClock == 4

\* the limiter as check and the cleanup callback see it
This ==
  [windows |-> windows, windowMs |-> windowMs, defaultLimit |-> defaultLimit,
   maxEntries |-> maxEntries]

\* the limit argument of check: left out, or a number
Limits == {None, Some(0), Some(1)}

\* check(key, limit) is called and returns
Check ==
  /\ cleanupTimer # "none"
  /\ Len(served) < MaxChecks
  /\ \E key \in Keys, limit \in Limits :
       /\ windows' = check(This, key, limit, clock).windows
       /\ served' = Append(served,
                           [key |-> key, limit |-> limit, now |-> clock,
                            returned |-> check(This, key, limit, clock).returned])
  /\ UNCHANGED <<windowMs, defaultLimit, maxEntries, cleanupTimer, clock>>
  /\ UNCHANGED <<parseVars, doc, jsonVars, validation, origin, pass, pc, clientVars, mcp, sanitizeCall>>

\* the interval timer fires and the cleanup callback runs
Sweep ==
  /\ cleanupTimer = "set"
  /\ windows' = sweep(This, clock)
  /\ UNCHANGED <<windowMs, defaultLimit, maxEntries, cleanupTimer, clock, served>>
  /\ UNCHANGED <<parseVars, doc, jsonVars, validation, origin, pass, pc, clientVars, mcp, sanitizeCall>>

\* destroy(), lines 62-65
Destroy ==
  /\ cleanupTimer = "set"
  /\ cleanupTimer' = "cleared"
  /\ windows' = [key \in Keys |-> None]
  /\ UNCHANGED <<windowMs, defaultLimit, maxEntries, clock, served>>
  /\ UNCHANGED <<parseVars, doc, jsonVars, validation, origin, pass, pc, clientVars, mcp, sanitizeCall>>

\* a millisecond passes: Date.now() returns one more
Tick ==
  /\ cleanupTimer # "none"
  /\ clock < MaxClock
  /\ clock' = clock + 1
  /\ UNCHANGED <<windows, windowMs, defaultLimit, maxEntries, cleanupTimer, served>>
  /\ UNCHANGED <<parseVars, doc, jsonVars, validation, origin, pass, pc, clientVars, mcp, sanitizeCall>>

NextLimiter ==
  \/ Check
  \/ Sweep
  \/ Destroy
  \/ Tick

\* the options given to the constructor
WindowSizes == {3}
DefaultLimits == {2}
EntryLimits == {1, 2}

\* new RateLimiter(options), lines 23-35
InitLimiter ==
  /\ windows = [key \in Keys |-> None]
  /\ windowMs \in WindowSizes
  /\ defaultLimit \in DefaultLimits
  /\ maxEntries \in EntryLimits
  /\ cleanupTimer = "set"
  /\ clock = 0
  /\ served = <<>>
  /\ ClientIdle
  /\ ServerIdle
  /\ SanitizeIdle
  /\ input = Text(<<>>)
  /\ doc = None
  /\ lines = <<>>
  /\ i = 0
  /\ FrameIs(NewFrame)
  /\ result = None
  /\ json = None
  /\ jsonResult = None
  /\ validation = None
  /\ pass = 1
  /\ origin = "limiter"
  /\ pc = "unused"

SpecLimiter == InitLimiter /\ [][NextLimiter]_vars

\* a limiter that is never destroyed: setInterval keeps calling the cleanup
\* callback
NextLimiterLive ==
  \/ Check
  \/ Sweep
  \/ Tick

\* new RateLimiter({ maxEntries: 1, ... }): one slot, two keys
InitLimiterLive ==
  /\ InitLimiter
  /\ maxEntries = 1

SpecLimiterLive ==
  /\ InitLimiterLive
  /\ [][NextLimiterLive]_vars
  /\ WF_vars(Sweep)

\* ================================================================ claims
\* What the text says, read off the scanned lines alone.
Skipped(k) == isSkipped(trim(lines[k]))
HasColon(k) == indexOf(trim(lines[k]), ":") # -1
KeyIs(k, name) == HasColon(k) /\ keyOf(trim(lines[k])) = Chars(name)

\* the last line before k that is neither blank nor a comment, or 0
PrevLine(k) ==
  LET earlier == {j \in 1..(k - 1) : ~Skipped(j)}
  IN  IF earlier = {} THEN 0 ELSE SetMax(earlier)

\* line k continues the block opened above it
RECURSIVE InBlock(_)
InBlock(k) ==
  LET j == PrevLine(k)
  IN  /\ ~Skipped(k)
      /\ isIndented(lines[k])
      /\ j # 0
      /\ \/ InBlock(j)
         \/ KeyIs(j, "Capability")
         \/ KeyIs(j, "Agent")

\* line k is a directive of the top level
TopLevel(k) == ~Skipped(k) /\ ~InBlock(k)

\* the Capability: lines that name a capability, in text order
CapabilityHeads ==
  SelectSeq([k \in 1..Len(lines) |-> k],
            LAMBDA k : TopLevel(k) /\ KeyIs(k, "Capability")
                       /\ valueOf(trim(lines[k])) # <<>>)

\* the indented lines that belong to the block opened at line h
BlockLines(h) ==
  {k \in (h + 1)..Len(lines) :
     /\ InBlock(k)
     /\ \A j \in (h + 1)..k : ~TopLevel(j)}

\* the value the block at line h gives to key name, if any
BlockValue(h, name) ==
  LET at == {k \in BlockLines(h) : KeyIs(k, name)}
  IN  IF at = {} THEN None ELSE Some(valueOf(trim(lines[SetMax(at)])))

Scanned == pc = "done" /\ IsSome(result) /\ ~tooLarge(input)
Parsed == Scanned /\ Get(result).success
Document == Get(Get(result).document)

C2_FlushBeforeDirective ==
  /\ [][(pc = "scan" /\ i < Len(lines) /\ ~isSkipped(trim(lines[i + 1]))
           /\ ~isIndented(lines[i + 1]) /\ state # "TOP_LEVEL") =>
          /\ state = "IN_CAPABILITY" /\ Get(currentCapability).id # <<>> =>
               /\ Len(capabilities') = Len(capabilities) + 1
               /\ Last(capabilities').id = Get(currentCapability).id
          /\ state = "IN_AGENT" =>
               /\ ObjHas(agents', Get(currentAgentName))
               /\ ObjGet(agents', Get(currentAgentName)) = Get(currentAgentPolicy)
          /\ state' = IF KeyIs(i + 1, "Capability") THEN "IN_CAPABILITY"
                      ELSE IF KeyIs(i + 1, "Agent") THEN "IN_AGENT"
                      ELSE "TOP_LEVEL"
          /\ IsSome(currentCapability') =>
               Get(currentCapability') =
                 NewCapability(valueOf(trim(lines[i + 1])))
          /\ IsSome(currentAgentPolicy') => Get(currentAgentPolicy') = NewPolicy
       ]_vars
  /\ [](Scanned =>
          /\ Len(capabilities) = Len(CapabilityHeads)
          /\ \A n \in 1..Len(capabilities) :
               /\ capabilities[n].id = valueOf(trim(lines[CapabilityHeads[n]]))
               /\ capabilities[n].endpoint =
                    OrElse(BlockValue(CapabilityHeads[n], "Endpoint"), <<>>)
          /\ Get(result).success => Document.capabilities = capabilities)

\* C2 witness: two capabilities parsed from one text, the first closed by the
\* Capability: line of the second, and only one of them with an endpoint
C2_Witness ==
  /\ Parsed
  /\ pass = 1
  /\ Len(Document.capabilities) = 2
  /\ CapabilityHeads[2] = PrevLine(CapabilityHeads[2] + 1)
  /\ Document.capabilities[1].id # Document.capabilities[2].id
  /\ Document.capabilities[1].endpoint # Document.capabilities[2].endpoint

HasValue(k, name) == KeyIs(k, name) /\ valueOf(trim(lines[k])) # <<>>
Gives(name) == \E k \in 1..Len(lines) : TopLevel(k) /\ HasValue(k, name)
Names(field) ==
  \E n \in 1..Len(Get(result).errors) :
    Get(result).errors[n].field = Some(field)

\* C3 as claimed: every text without a top-level Site-Name line of non-empty
\* value is refused with an error that names Site-Name, and likewise for
\* Site-URL.
C3_AsClaimed ==
  (pc = "done" /\ IsSome(result) /\ pass = 1) =>
    /\ ~(\E k \in 1..Len(splitLines(input.text)) :
           LET t == trim(splitLines(input.text)[k])
           IN  indexOf(t, ":") # -1 /\ keyOf(t) = Chars("Site-Name")
               /\ valueOf(t) # <<>>)
         => ~Get(result).success /\ Names("Site-Name")
    /\ ~(\E k \in 1..Len(splitLines(input.text)) :
           LET t == trim(splitLines(input.text)[k])
           IN  indexOf(t, ":") # -1 /\ keyOf(t) = Chars("Site-URL")
               /\ valueOf(t) # <<>>)
         => ~Get(result).success /\ Names("Site-URL")

\* C3 amended: every text of at most MAX_INPUT_SIZE characters without a
\* top-level Site-Name line of non-empty value is refused with an error that
\* names Site-Name, and likewise for Site-URL; when both are missing both
\* errors are in the same result, whatever else the text contains.
C3_RequiredFields ==
  Scanned =>
    /\ ~Gives("Site-Name") => ~Get(result).success /\ Names("Site-Name")
    /\ ~Gives("Site-URL") => ~Get(result).success /\ Names("Site-URL")

\* C3 witness: both required lines missing from a text that holds a block
C3_Witness ==
  /\ Scanned
  /\ pass = 1
  /\ ~Gives("Site-Name") /\ ~Gives("Site-URL")
  /\ Names("Site-Name") /\ Names("Site-URL")
  /\ Len(capabilities) > 0
  /\ \E k \in 1..Len(lines) : InBlock(k) /\ KeyIs(k, "Site-Name")

\* the characters of a value that are neither white space nor control
Ink(v) == SelectSeq(v, LAMBDA c : c \notin WhiteSpace \cup ControlChars)
HasBreak(v) == \E k \in 1..Len(v) : v[k] \in ControlChars

Regenerated == origin = "document" /\ pass = 2 /\ pc = "done" /\ IsSome(result)

\* C8: whatever CR, LF or control characters the free-text fields of a
\* document hold, parsing the generated text gives back one site, the same
\* capability ids, the same agent names and the same metadata keys, every
\* free-text value entire in its own field: no line was forged.
C8_NoInjection ==
  Regenerated =>
    /\ Get(result).success
    /\ Ink(Document.site.name) = Ink(Get(doc).site.name)
    /\ Ink(Get(Document.site.description)) = Ink(Get(Get(doc).site.description))
    /\ Len(Document.capabilities) = Len(Get(doc).capabilities)
    /\ \A n \in 1..Len(Document.capabilities) :
         /\ Document.capabilities[n].id = Get(doc).capabilities[n].id
         /\ Ink(Document.capabilities[n].description)
              = Ink(Get(doc).capabilities[n].description)
         /\ IsSome(Document.capabilities[n].parameters)
         /\ Len(Get(Document.capabilities[n].parameters)) = 1
         /\ Ink(Get(Get(Document.capabilities[n].parameters)[1].description))
              = Ink(Get(Get(Get(doc).capabilities[n].parameters)[1].description))
    /\ ObjKeys(Document.agents) = ObjKeys(Get(doc).agents)
    /\ IsSome(Document.metadata)
    /\ ObjKeys(Get(Document.metadata)) = ObjKeys(Get(Get(doc).metadata))
    /\ Ink(Get(Document.metadata)[1].value) = Ink(Get(Get(doc).metadata)[1].value)
    /\ Get(result).warnings = <<>>

\* C8 witness: the site name 'Evil<LF>Fake-Header: injected' went through
\* generate and parse, next to a description holding CR LF
C8_Witness ==
  /\ Regenerated
  /\ Get(doc).site.name = Chars("Evil\nFake-Header: injected")
  /\ HasBreak(Get(doc).capabilities[1].description)
  /\ HasBreak(Get(Get(doc).metadata)[1].value)
  /\ Document.site.name = Chars("Evil Fake-Header: injected")

RoundTripped == origin = "text" /\ pass = 2 /\ pc = "done" /\ IsSome(result)

SamePolicies(a, b) ==
  /\ ObjKeySet(a) = ObjKeySet(b)
  /\ \A key \in ObjKeySet(a) :
       /\ ObjGet(a, key).rateLimit = ObjGet(b, key).rateLimit
       /\ ObjGet(a, key).capabilities = ObjGet(b, key).capabilities

SameIdentity(d, r) ==
  /\ r.site.name = d.site.name
  /\ r.site.url = d.site.url
  /\ Len(r.capabilities) = Len(d.capabilities)
  /\ \A n \in 1..Len(d.capabilities) :
       /\ r.capabilities[n].id = d.capabilities[n].id
       /\ r.capabilities[n].endpoint = d.capabilities[n].endpoint
       /\ r.capabilities[n].protocol = d.capabilities[n].protocol
  /\ SamePolicies(d.agents, r.agents)

\* the identity fields of d are values that sanitizeValue leaves alone
Unsanitized(d) ==
  /\ sanitize(d.site.name) = d.site.name
  /\ sanitize(d.site.url) = d.site.url
  /\ \A n \in 1..Len(d.capabilities) :
       /\ sanitize(d.capabilities[n].id) = d.capabilities[n].id
       /\ sanitize(d.capabilities[n].endpoint) = d.capabilities[n].endpoint
       /\ sanitize(d.capabilities[n].protocol) = d.capabilities[n].protocol
  /\ \A key \in ObjKeySet(d.agents) : sanitize(key) = key

\* C10 as claimed: for every document d of a successful parse,
\* parse(generate(d)) succeeds with the same site name and URL, capability
\* ids, endpoints and protocols, agent names, rate limits and capability lists.
C10_AsClaimed ==
  RoundTripped => Get(result).success /\ SameIdentity(Get(doc), Document)

\* C10 amended: the same, for every document d of a successful parse whose
\* site name, site URL, capability ids, endpoints, protocols and agent names
\* are left unchanged by sanitizeValue.
C10_RoundTrip ==
  (RoundTripped /\ Unsanitized(Get(doc))) =>
    Get(result).success /\ SameIdentity(Get(doc), Document)

\* C10 witness: a round trip of a capability with endpoint and protocol and
\* of an agent with a rate limit and a capability list
C10_Witness ==
  /\ RoundTripped
  /\ Unsanitized(Get(doc))
  /\ Len(Document.capabilities) > 0
  /\ Document.capabilities[1].protocol = Chars("MCP")
  /\ ObjHas(Document.agents, Chars("g"))
  /\ IsSome(ObjGet(Document.agents, Chars("g")).rateLimit)
  /\ IsSome(ObjGet(Document.agents, Chars("g")).capabilities)

SizeError == oversizeResult.errors[1]
Consistent(r) ==
  /\ r.success <=> r.errors = <<>>
  /\ r.success <=> IsSome(r.document)

\* C4: a result of parse or of parseJSON is successful exactly when it has
\* no error and exactly when it carries a document; a result of validate is
\* valid exactly when it has no error.  Warnings decide nothing.
C4_ResultShape ==
  /\ (pc = "done" /\ IsSome(result)) => Consistent(Get(result))
  /\ IsSome(jsonResult) => Consistent(Get(jsonResult))
  /\ IsSome(validation) =>
       (Get(validation).valid <=> Get(validation).errors = <<>>)

\* C4 witness: a successful parse that returns warnings next to its document
C4_Witness ==
  /\ pc = "done"
  /\ IsSome(result)
  /\ Get(result).success
  /\ Len(Get(result).warnings) > 0
  /\ IsSome(Get(result).document)

\* C5: an input longer than MAX_INPUT_SIZE is refused by parse and by
\* parseJSON with the size error alone, no warning and no document, and parse
\* has then split no line and collected nothing; an input of exactly
\* MAX_INPUT_SIZE characters is not refused for its size.
C5_SizeLimit ==
  /\ (pc = "done" /\ IsSome(result) /\ pass = 1) =>
       /\ inputLength(input) > MAX_INPUT_SIZE =>
            /\ Get(result) = oversizeResult
            /\ Len(Get(result).errors) = 1
            /\ lines = <<>> /\ i = 0 /\ Frame = NewFrame
       /\ inputLength(input) <= MAX_INPUT_SIZE =>
            /\ \A n \in 1..Len(Get(result).errors) :
                 Get(result).errors[n] # SizeError
            /\ lines = splitLines(input.text)
  /\ (IsSome(jsonResult) /\ pass = 1) =>
       /\ Get(json).length > MAX_INPUT_SIZE =>
            /\ Get(jsonResult) = oversizeResult
            /\ Len(Get(jsonResult).errors) = 1
       /\ Get(json).length <= MAX_INPUT_SIZE =>
            Get(jsonResult).errors # oversizeResult.errors

\* C5 witness: a text one character above the limit has been refused
C5_Witness ==
  /\ pc = "done"
  /\ IsSome(result)
  /\ inputLength(input) = MAX_INPUT_SIZE + 1
  /\ Len(input.text) > 0
  /\ Get(result).errors = <<SizeError>>
  /\ ~IsSome(Get(result).document)

Validated == pc = "validated" /\ IsSome(validation)
Coded(code) == SelectSeq(Get(validation).errors, LAMBDA e : e.code = code)
Ids(d) == {d.capabilities[k].id : k \in 1..Len(d.capabilities)}

\* C6: validate reports one DUPLICATE_CAPABILITY error for every capability
\* whose id an earlier capability already has, that is as many as there are
\* capabilities beyond the distinct ids, and the document is then not valid.
C6_DuplicateCapability ==
  Validated =>
    /\ Len(Coded("DUPLICATE_CAPABILITY"))
         = Len(Get(doc).capabilities) - Cardinality(Ids(Get(doc)))
    /\ Len(Get(doc).capabilities) > Cardinality(Ids(Get(doc))) =>
         ~Get(validation).valid

\* C6 witness: three capabilities with one id gave two errors
C6_Witness ==
  /\ Validated
  /\ Len(Get(doc).capabilities) = 3
  /\ Cardinality(Ids(Get(doc))) = 1
  /\ Len(Coded("DUPLICATE_CAPABILITY")) = 2
  /\ ~Get(validation).valid

\* the (agent, position) pairs whose listed id names no capability
Dangling(d) ==
  {<<a, n>> \in (1..Len(d.agents)) \X (1..MaxRefs + 1) :
     /\ IsSome(d.agents[a].value.capabilities)
     /\ n <= Len(Get(d.agents[a].value.capabilities))
     /\ Get(d.agents[a].value.capabilities)[n] \notin Ids(d)}

\* C7: validate reports one UNKNOWN_CAPABILITY_REF error, under the agent's
\* path, for every occurrence of an id in an agent's capability list that is
\* the id of no capability, and none otherwise; any such error makes the
\* document invalid; a policy without a list gives none.
C7_UnknownCapabilityRef ==
  Validated =>
    /\ Len(Coded("UNKNOWN_CAPABILITY_REF")) = Cardinality(Dangling(Get(doc)))
    /\ \A a \in 1..Len(Get(doc).agents) :
         Len(SelectSeq(Coded("UNKNOWN_CAPABILITY_REF"),
                       LAMBDA e : e.path[2] = Get(doc).agents[a].key))
           = Cardinality({p \in Dangling(Get(doc)) : p[1] = a})
    /\ Dangling(Get(doc)) # {} => ~Get(validation).valid

\* C7 witness: an agent listing the same unknown id twice, another agent
\* without a list, and capabilities that exist
C7_Witness ==
  /\ Validated
  /\ Get(doc).agents[1].value.capabilities = Some(<<Chars("z"), Chars("z")>>)
  /\ ~IsSome(Get(doc).agents[2].value.capabilities)
  /\ Len(Get(doc).capabilities) > 0
  /\ Len(Coded("UNKNOWN_CAPABILITY_REF")) = 2

JsonRoundTripped == pass = 2 /\ pc \in {"jsonDone", "thrown"}
JsonThrown == pass = 2 /\ pc = "thrown"
JsonAltered ==
  /\ pass = 2
  /\ pc = "jsonDone"
  /\ Get(jsonResult).success
  /\ Get(jsonResult).document # doc

\* C9: for every document d of a successful parse or parseJSON,
\* parseJSON(generateJSON(d)) succeeds and returns d, field for field.
C9_JsonRoundTrip ==
  JsonRoundTripped =>
    /\ pc = "jsonDone"
    /\ Get(jsonResult).success
    /\ Get(jsonResult).document = doc

\* ------------------------------------------------------ the client claims
Returned == cpc = "returned" /\ IsSome(discovered)
Pending == cpc \in {"call", "awaitResponse", "awaitBody"}
AllowedBase == fetchable(baseUrl)
Outcome(k) == outcomes[k]
Parsed2xx(k) ==
  /\ Outcome(k).kind = "body"
  /\ Outcome(k).status \in 200..299
Expected(body) == IF format = "txt" THEN parse(body) ELSE parseJSON(body)
WellKnown == IF format = "txt" THEN "/.well-known/agents.txt" ELSE "/.well-known/agents.json"
Legacy == IF format = "txt" THEN "/agents.txt" ELSE "/agents.json"
Origin == stripTrailingSlashes(baseUrl)

\* C11: called with a base URL that is malformed or not http(s), discover
\* and discoverJSON start no fetch at all and fail as a precondition failure
\* (a throw), not with the 'not found' result.
C11_PreconditionFailure ==
  (~AllowedBase /\ cpc # "call") =>
    /\ requests = <<>>
    /\ cpc = "thrown"
    /\ ~IsSome(discovered)

\* C12: a call issues at most two requests and never two at a time, the
\* well-known path first; the fallback path is requested only once the first
\* request is over without a usable response, never when the first one gave
\* a body; and a body served by the fallback path alone is the manifest the
\* call returns.
C12_TwoSequentialRequests ==
  /\ inflight <= 1
  /\ Len(requests) <= 2
  /\ Len(requests) >= 1 => requests[1] = Origin \o Chars(WellKnown)
  /\ Len(requests) = 2 =>
       /\ requests[2] = Origin \o Chars(Legacy)
       /\ Len(outcomes) >= 1
       /\ Outcome(1).kind \in {"status", "refused", "unsupported", "timeout", "bodyError"}
  /\ (Len(outcomes) >= 1 /\ Outcome(1).kind = "body") =>
       (Len(requests) = 1 /\ Returned)
  /\ (Len(outcomes) = 2 /\ Outcome(2).kind = "body") =>
       /\ Returned
       /\ Get(discovered) = Expected(Get(Outcome(2).body))

\* C12 witness: the well-known path answered 404 and the fallback path
\* served a manifest, which the call returned
C12_Witness ==
  /\ Returned
  /\ Len(requests) = 2
  /\ Outcome(1).kind = "status" /\ Outcome(1).status = 404
  /\ Outcome(2).kind = "body"
  /\ Get(discovered).success
  /\ IsSome(Get(discovered).document)

Failed(k) == ~Parsed2xx(k) \/ ~Expected(Get(Outcome(k).body)).success

\* C13: for an http(s) base URL a call that is over has returned a
\* ParseResult, whatever the requests met, and that result has success=false
\* when no request gave a 2xx body that parses; the call never throws.
C13_NeverThrows ==
  (AllowedBase /\ ~Pending) =>
    /\ Returned
    /\ (\A k \in 1..Len(outcomes) : Failed(k)) =>
         /\ ~Get(discovered).success
         /\ ~IsSome(Get(discovered).document)
         /\ Len(Get(discovered).errors) >= 1

\* C13 witness: a refused connection, then a body that broke while read
C13_Witness ==
  /\ Returned
  /\ AllowedBase
  /\ Len(outcomes) = 2
  /\ Outcome(1).kind = "refused"
  /\ Outcome(2).kind = "bodyError"
  /\ ~Get(discovered).success

Timeouts == Cardinality({k \in 1..Len(outcomes) : Outcome(k).kind = "timeout"})

\* C14: against an origin that never answers, each request is aborted by
\* its own timer and the call comes back, with the 'not found' result, after
\* two timeouts at most; a call to an http(s) origin always comes back.
C14_TimeoutBounded ==
  /\ (cpc = "call" /\ AllowedBase) ~> Returned
  /\ [](Timeouts <= 2)
  /\ []((Returned /\ Timeouts = Len(outcomes)) =>
          /\ Timeouts = 2
          /\ timer = "cleared"
          /\ Get(discovered) = notFound(format, Origin,
                                        fetchFailure("This operation was aborted"),
                                        fetchFailure("This operation was aborted")))

\* C14 witness: both requests timed out and the call has returned
C14_Witness ==
  /\ Returned
  /\ Len(outcomes) = 2
  /\ Timeouts = 2
  /\ ~Get(discovered).success
  /\ inflight = 0

MAX_RESPONSE_BYTES == 1048576
Oversized(k) ==
  /\ Outcome(k).status \in 200..299
  /\ \/ /\ IsSome(Outcome(k).contentLength)
        /\ Get(Outcome(k).contentLength) > MAX_RESPONSE_BYTES
     \/ /\ IsSome(Outcome(k).body)
        /\ bodyLength(Get(Outcome(k).body)) > MAX_RESPONSE_BYTES

\* C15: a 2xx response whose Content-Length or whose decoded body exceeds
\* the maximum response size is a failed attempt: no parser gets its body,
\* the first such response is followed by the fallback request and the
\* second by the 'not found' result.
C15_OversizedResponse ==
  \A k \in 1..Len(outcomes) :
    (Oversized(k) /\ Outcome(k).kind = "body") =>
      /\ \A n \in 1..Len(handed) : handed[n] # Get(Outcome(k).body)
      /\ k = 1 => Len(requests) = 2
      /\ k = 2 => (Returned /\ Get(discovered).errors[1].message
                     \in {"No agents.txt found at", "No agents.json found at"})

C17_DiscoveryFailed ==
  (Returned /\ Len(outcomes) = 2 /\ Outcome(2).kind # "body") =>
    /\ ~Get(discovered).success
    /\ ~IsSome(Get(discovered).document)
    /\ Get(discovered).warnings = <<>>
    /\ Len(Get(discovered).errors) = 1
    /\ Get(discovered).errors[1].cause = Get(Get(fallback).error)
    /\ "code" \in DOMAIN Get(discovered).errors[1]
    /\ Get(discovered).errors[1].code = "DISCOVERY_FAILED"

\* --------------------------------------------- validate: transport security
Endpoints ==
  {Chars("https://a/c"), Chars("http://a/c"), Chars("wss://a/ws"),
   Chars("ws://a/ws"), Chars("ftp://a/c")}

SecurityDocs ==
  {[specVersion |-> Chars("1.0"),
    generatedAt |-> None,
    site |-> [name |-> Chars("a"), url |-> url,
              description |-> None, contact |-> None, privacyPolicy |-> None],
    capabilities |->
      [k \in 1..Len(es) |->
         [ValCapability(<<"c", ToString(k)>>) EXCEPT !.endpoint = es[k]]],
    access |-> [allow |-> <<Chars("*")>>, disallow |-> <<>>],
    agents |-> <<[key |-> Chars("*"), value |-> NewPolicy]>>,
    metadata |-> None] :
     url \in {Chars("https://a"), Chars("http://a"), Chars("wss://a")},
     es \in SeqsUpTo(Endpoints, 2) \ {<<>>}}

InitSecurity ==
  /\ input = Text(<<>>)
  /\ doc \in {Some(d) : d \in SecurityDocs}
  /\ Idle
  /\ origin = "document"
  /\ pc = "validate"

SpecSecurity == InitSecurity /\ [][NextValidate]_vars

Warned(code, path) ==
  \E n \in 1..Len(Get(validation).warnings) :
    /\ Get(validation).warnings[n].code = code
    /\ Get(validation).warnings[n].path = path
Secure(url, schemes) == schemeOf(url) \in schemes

\* C18: validate warns INSECURE_ENDPOINT for a capability exactly when the
\* scheme of its endpoint is neither https nor wss, and INSECURE_URL exactly
\* when the site URL is not https; the warnings leave valid as it is.
C18_InsecureWarnings ==
  Validated =>
    /\ \A k \in 1..Len(Get(doc).capabilities) :
         Warned("INSECURE_ENDPOINT",
                <<"capabilities", Get(doc).capabilities[k].id, "endpoint">>)
           <=> ~Secure(Get(doc).capabilities[k].endpoint,
                       {Chars("https"), Chars("wss")})
    /\ Warned("INSECURE_URL", <<"site", "url">>)
         <=> ~Secure(Get(doc).site.url, {Chars("https")})
    /\ Get(validation).valid <=> Get(validation).errors = <<>>

\* ------------------------------------------------ Rate-Limit of a capability
RateDigits == {"", "0", "00", "5", "60", "05", "6x", "-5"}
RateWindows == {"second", "minute", "hour", "day", "week", "Minute", ""}
RateValues ==
  {Chars(d) \o <<"/">> \o Chars(w) : d \in RateDigits, w \in RateWindows}
  \cup {Chars("60"), Chars("minute"), Chars("60 minute"), Chars("60/minute/hour")}

RateLimitTexts ==
  {Text(join(HeaderLines \o <<Chars("Capability: c"),
                              Chars("  Rate-Limit: ") \o v>>, <<"\n">>)) :
     v \in RateValues}

InitRateLimit ==
  /\ input \in RateLimitTexts
  /\ doc = None
  /\ Idle
  /\ origin = "text"
  /\ pc = "begin"

\* the steps of parse that a manifest of top-level lines and one Capability
\* block can take
NextCapabilityBlock ==
  \/ ParseBegin
  \/ ScanCapabilityField
  \/ ScanTopLevel
  \/ ParseFinish

SpecRateLimit == InitRateLimit /\ [][NextCapabilityBlock]_vars

\* the value written on the Rate-Limit line, and what it says
RateValue == sliceFrom(lines[4], Len("  Rate-Limit: "))
DigitOf(c) == CHOOSE n \in 0..9 : ToString(n) = c
RECURSIVE Decimal(_)
Decimal(ds) ==
  IF ds = <<>> THEN 0 ELSE 10 * Decimal(SubSeq(ds, 1, Len(ds) - 1)) + DigitOf(Last(ds))
RateForm(v, n) ==
  /\ n > 1
  /\ v[n] = "/"
  /\ \A k \in 1..(n - 1) : v[k] \in {"0", "1", "2", "3", "4", "5", "6", "7", "8", "9"}
  /\ SubSeq(v, n + 1, Len(v))
       \in {Chars("second"), Chars("minute"), Chars("hour"), Chars("day")}
  /\ \E k \in 1..(n - 1) : v[k] # "0"
WellFormedRate(v) == \E n \in 1..Len(v) : RateForm(v, n)
RateOf(v) ==
  LET n == CHOOSE m \in 1..Len(v) : RateForm(v, m)
  IN  [requests |-> Decimal(SubSeq(v, 1, n - 1)), window |-> SubSeq(v, n + 1, Len(v))]

\* C19: parseRateLimit(v) is {requests: N, window: w} exactly when v is
\* <digits>/<w> with w one of second, minute, hour, day and N > 0, and null
\* otherwise; in a Capability block a rejected value adds exactly one
\* warning, leaves rateLimit unset, and the parse succeeds.
C19_RateLimit ==
  (pc = "done" /\ IsSome(result)) =>
    /\ parseRateLimit(RateValue)
         = (IF WellFormedRate(RateValue) THEN Some(RateOf(RateValue)) ELSE None)
    /\ Get(result).success
    /\ Len(Get(Get(result).document).capabilities) = 1
    /\ Get(Get(result).document).capabilities[1].rateLimit
         = (IF WellFormedRate(RateValue) THEN Some(RateOf(RateValue)) ELSE None)
    /\ Len(Get(result).warnings) = (IF WellFormedRate(RateValue) THEN 0 ELSE 1)
    /\ ~WellFormedRate(RateValue) =>
         /\ Get(result).warnings[1].field = Some("Rate-Limit")
         /\ Get(result).warnings[1].line = Some(4)

\* C19 witness: `Rate-Limit: 0/minute` was refused with one warning
C19_Witness ==
  /\ pc = "done"
  /\ IsSome(result)
  /\ RateValue = Chars("0/minute")
  /\ parseRateLimit(RateValue) = None
  /\ Get(result).success
  /\ Len(Get(result).warnings) = 1
  /\ Get(Get(result).document).capabilities[1].rateLimit = None

\* ------------------------------------------ Protocol and Auth of a capability
ProtocolValues == {"REST", "MCP", "SOAP", "rest", ""}
AuthValues == {"none", "oauth2", "magic", "OAuth2", ""}
EnumLines ==
  {Chars("  Protocol: ") \o Chars(v) : v \in ProtocolValues}
  \cup {Chars("  Auth: ") \o Chars(v) : v \in AuthValues}

EnumTexts ==
  {Text(join(HeaderLines \o <<Chars("Capability: c")>> \o ls, <<"\n">>)) :
     ls \in SeqsUpTo(EnumLines, 2)}

InitEnums ==
  /\ input \in EnumTexts
  /\ doc = None
  /\ Idle
  /\ origin = "text"
  /\ pc = "begin"

SpecEnums == InitEnums /\ [][NextCapabilityBlock]_vars

\* the field lines of the block, read off the text
FieldLines(label) ==
  {k \in 4..Len(lines) :
     /\ Len(lines[k]) >= Len(label)
     /\ SubSeq(lines[k], 1, Len(label)) = Chars(label)}
FieldValue(label, k) == SubSeq(lines[k], Len(label) + 1, Len(lines[k]))
KnownProtocols == {Chars(v) : v \in {"REST", "MCP", "A2A", "GraphQL", "WebSocket"}}
KnownAuthTypes == {Chars(v) : v \in {"none", "api-key", "bearer-token", "oauth2", "hmac"}}
UnknownLines ==
  {k \in FieldLines("  Protocol: ") : FieldValue("  Protocol: ", k) \notin KnownProtocols}
  \cup {k \in FieldLines("  Auth: ") : FieldValue("  Auth: ", k) \notin KnownAuthTypes}

\* C20: in a Capability block a Protocol value and an Auth value outside
\* their enumerations are stored as written (as protocol, as auth.type),
\* each adds exactly one warning, and the parse succeeds.
C20_OpenEnumerations ==
  (pc = "done" /\ IsSome(result)) =>
    /\ Get(result).success
    /\ Len(Get(result).warnings) = Cardinality(UnknownLines)
    /\ LET cap == Get(Get(result).document).capabilities[1]
       IN  /\ FieldLines("  Protocol: ") # {} =>
                cap.protocol = FieldValue("  Protocol: ", SetMax(FieldLines("  Protocol: ")))
           /\ FieldLines("  Auth: ") # {} =>
                /\ IsSome(cap.auth)
                /\ Get(cap.auth).type = FieldValue("  Auth: ", SetMax(FieldLines("  Auth: ")))

\* ------------------------------------------- parse: lines it cannot place
\* manifests with the two required lines, followed by lines without a colon,
\* with keys no switch knows, and with rate limits parseRateLimit refuses
OddLines ==
  {Chars("junk"), Chars("  junk"), Chars("X-Key: v"), Chars("X-Key: w"),
   Chars("  X-Key: v"), Chars("__proto__: x"), Chars("Capability: c"),
   Chars("Agent: g"), Chars("  Rate-Limit: fast"),
   Chars("  Rate-Limit: 5/minute"), Chars("# x")}

OddTexts ==
  {join(HeaderLines \o b, <<"\n">>) : b \in SeqsUpTo(OddLines, MaxLines)}

InitOdd ==
  /\ input \in {Text(t) : t \in OddTexts}
  /\ doc = None
  /\ Idle
  /\ origin = "text"
  /\ pc = "begin"

SpecOdd == InitOdd /\ [][NextParse]_vars

\* the scan is about to handle line i + 1
AtLine == pc = "scan" /\ i < Len(lines)
NoColon(k) == ~Skipped(k) /\ ~HasColon(k)
\* the locals of parse other than the warnings are what they were
OnlyWarned == Frame' = [Frame EXCEPT !.warnings = warnings']
\* one warning more, for the line just handled
WarnedHere ==
  /\ Len(warnings') = Len(warnings) + 1
  /\ SubSeq(warnings', 1, Len(warnings)) = warnings
  /\ Last(warnings').line = Some(i + 1)

\* C21: in every parser state a non-empty, non-comment line without a colon
\* adds one warning carrying its line number and no error, and the scan goes
\* on: every later line is handled and a text with the required fields is
\* still accepted.
C21_NoColonWarning ==
  /\ [][(AtLine /\ NoColon(i + 1)) =>
          /\ WarnedHere
          /\ errors' = errors
          /\ pc' = "scan"
          /\ i' = i + 1]_vars
  /\ [](Scanned =>
          /\ i = Len(lines)
          /\ (Gives("Site-Name") /\ Gives("Site-URL")) => Get(result).success)

\* the keys of the three switches (lines 108-173, 186-197 and 229-263)
TopLevelKeys ==
  {Chars("Site-Name"), Chars("Site-URL"), Chars("Description"),
   Chars("Site-Description"), Chars("Contact"), Chars("Site-Contact"),
   Chars("Privacy-Policy"), Chars("Site-Privacy-Policy"), Chars("Allow"),
   Chars("Disallow"), Chars("Agents-JSON"), Chars("Capability"), Chars("Agent")}
CapabilityKeys ==
  {Chars("Endpoint"), Chars("Method"), Chars("Protocol"), Chars("Auth"),
   Chars("Auth-Endpoint"), Chars("Auth-Docs"), Chars("Registration-Endpoint"),
   Chars("Scopes"), Chars("Rate-Limit"), Chars("Description"), Chars("OpenAPI"),
   Chars("Param")}
AgentKeys == {Chars("Rate-Limit"), Chars("Capabilities")}

LineKey == keyOf(trim(lines[i + 1]))
LineValue == valueOf(trim(lines[i + 1]))
\* line i + 1 is handled by the named branch and has a key its switch lacks
UnknownKey(kind, known) ==
  /\ AtLine
  /\ LineKind(Frame, lines[i + 1]) = kind
  /\ HasColon(i + 1)
  /\ LineKey \notin known

\* C22: a top-level key no case names is kept in metadata under that key
\* with its value, the last occurrence winning, and touches no other field;
\* such a key on an indented line of a Capability or Agent block adds
\* exactly one warning, is stored nowhere and leaves the block as it was.
C22_UnknownKeys ==
  /\ [][UnknownKey("top", TopLevelKeys) =>
          /\ ObjHas(metadata', LineKey)
          /\ ObjGet(metadata', LineKey) = LineValue
          /\ \A n \in 1..Len(metadata) :
               metadata[n].key # LineKey =>
                 /\ ObjHas(metadata', metadata[n].key)
                 /\ ObjGet(metadata', metadata[n].key) = metadata[n].value
          /\ Len(metadata') <= Len(metadata) + 1
          /\ [Frame' EXCEPT !.metadata = metadata]
               = flushOpenBlock(Frame)]_vars
  /\ [][(UnknownKey("capability", CapabilityKeys)
           \/ UnknownKey("agent", AgentKeys)) =>
          /\ WarnedHere
          /\ OnlyWarned]_vars
  /\ [](Parsed =>
          Document.metadata = IF metadata = <<>> THEN None ELSE Some(metadata))

\* C23: a top-level key no case names is stored in metadata with its value
\* and a warning with the code UNKNOWN_FIELD is added for its line; the
\* parse still succeeds.
C23_UnknownFieldWarning ==
  /\ [][UnknownKey("top", TopLevelKeys) =>
          /\ ObjHas(metadata', LineKey)
          /\ ObjGet(metadata', LineKey) = LineValue
          /\ WarnedHere
          /\ "code" \in DOMAIN Last(warnings')
          /\ Last(warnings').code = "UNKNOWN_FIELD"]_vars
  /\ [](Scanned => Get(result).success)

\* C26: in an Agent block a Rate-Limit value that parseRateLimit refuses
\* adds a warning with the code INVALID_RATE_LIMIT for its line and leaves
\* the rate limit of the agent unset; the parse succeeds and the agent is
\* recorded.
C26_AgentRateLimitWarning ==
  /\ [][(AtLine /\ LineKind(Frame, lines[i + 1]) = "agent"
           /\ KeyIs(i + 1, "Rate-Limit")
           /\ ~IsSome(parseRateLimit(LineValue))) =>
          /\ WarnedHere
          /\ "code" \in DOMAIN Last(warnings')
          /\ Last(warnings').code = "INVALID_RATE_LIMIT"
          /\ Get(currentAgentPolicy').rateLimit = Get(currentAgentPolicy).rateLimit
          /\ currentAgentName' = currentAgentName]_vars
  /\ [](Scanned =>
          /\ Get(result).success
          /\ \A k \in 1..Len(lines) :
               (TopLevel(k) /\ KeyIs(k, "Agent")) =>
                 ObjHas(agents, valueOf(trim(lines[k]))))

\* ------------------------------------------------------ parse: Param lines
\* Param values spelled from their parts, and two that no grammar accepts
ParamNames == {Chars("q"), Chars("content-type")}
ParamLocations == {Chars("query"), Chars("cookie")}
ParamTypes == {Chars("string"), Chars("date-time")}
ParamSeparators == {<<>>, <<EmDash>>, Chars("--")}
ParamShapes ==
  [name : ParamNames, in : ParamLocations, type : ParamTypes,
   required : BOOLEAN, separator : ParamSeparators]

Spelled(shape) ==
  shape.name \o Chars(" (") \o shape.in \o Chars(", ") \o shape.type
  \o (IF shape.required THEN Chars(", required") ELSE <<>>) \o Chars(")")
  \o (IF shape.separator = <<>> THEN <<>>
      ELSE <<" ">> \o shape.separator \o Chars(" d"))

ParamValues ==
  {Spelled(shape) : shape \in ParamShapes}
  \cup {Chars("q query string"), Chars("q (query)")}

ParamTexts ==
  {join(HeaderLines \o <<Chars("Capability: c")>>
          \o [k \in 1..Len(vs) |-> Chars("  Param: ") \o vs[k]], <<"\n">>) :
     vs \in SeqsUpTo(ParamValues, 2)}

InitParam ==
  /\ input \in {Text(t) : t \in ParamTexts}
  /\ doc = None
  /\ Idle
  /\ origin = "text"
  /\ pc = "begin"

SpecParam == InitParam /\ [][NextCapabilityBlock]_vars

\* the parameter a value stands for under the grammar
\* name (location, type[, required]) [(em-dash | --) description]
Meant(value) ==
  LET shapes == {shape \in ParamShapes :
                   Spelled(shape) = value /\ shape.in \in validLocations}
      shape == CHOOSE one \in shapes : TRUE
  IN  IF shapes = {} THEN None
      ELSE Some([name |-> shape.name, in |-> shape.in, type |-> shape.type,
                 required |-> shape.required,
                 description |-> IF shape.separator = <<>> THEN None
                                 ELSE Some(Chars("d"))])

ParametersOf(cur) == OrElse(Get(cur).parameters, <<>>)

\* C24: a Param value of the form name (location, type[, required]), with
\* or without a description after an em-dash or a double hyphen, becomes
\* exactly one ParameterDef, hyphenated names and types kept whole, required
\* being true exactly when the token is there; any other value, or one whose
\* location is none of query, path, header, body, adds one warning and no
\* parameter.
C24_ParamGrammar ==
  [][(AtLine /\ LineKind(Frame, lines[i + 1]) = "capability"
       /\ KeyIs(i + 1, "Param")) =>
      IF IsSome(Meant(LineValue))
        THEN /\ ParametersOf(currentCapability')
                  = Append(ParametersOf(currentCapability), Get(Meant(LineValue)))
             /\ warnings' = warnings
        ELSE /\ WarnedHere
             /\ ParametersOf(currentCapability') = ParametersOf(currentCapability)
    ]_vars

\* ------------------------------------------------- generate: order of blocks
\* manifests whose agents are named in an order that is not the numeric one
OrderLines ==
  {Chars("Agent: 10"), Chars("Agent: 2"), Chars("Agent: b"),
   Chars("Capability: c"), Chars("Capability: d"), Chars("  Endpoint: e"),
   Chars("  Rate-Limit: 5/minute")}

OrderTexts ==
  {join(HeaderLines \o b, <<"\n">>) : b \in SeqsUpTo(OrderLines, MaxLines)}

InitOrder ==
  /\ input \in {Text(t) : t \in OrderTexts}
  /\ doc = None
  /\ Idle
  /\ origin = "text"
  /\ pc = "begin"

SpecOrder == InitOrder /\ [][NextRoundTrip]_vars

\* the values of the lines of text ls that start with label, in order
Labelled(ls, label) ==
  LET at == SelectSeq([k \in 1..Len(ls) |-> k],
                      LAMBDA k : startsWith(ls[k], Chars(label)))
  IN  [n \in 1..Len(at) |-> sliceFrom(ls[at[n]], Len(Chars(label)))]

\* a sequence without the repetitions of its earlier elements
FirstOccurrences(q) ==
  LET at == SelectSeq([k \in 1..Len(q) |-> k],
                      LAMBDA k : \A j \in 1..(k - 1) : q[j] # q[k])
  IN  [n \in 1..Len(at) |-> q[at[n]]]

\* the agent names in the order parse entered them in the agents mapping
InsertionOrder == FirstOccurrences(Labelled(lines, "Agent: "))

\* the text generate is about to return for doc
Emitted == splitLines(input'.text)
\* the line that follows the n-th line of ls starting with label
Below(ls, label, n) ==
  LET at == SelectSeq([k \in 1..Len(ls) |-> k],
                      LAMBDA k : startsWith(ls[k], Chars(label)))
  IN  ls[at[n] + 1]

\* C25: the text of generate ends with a newline, lists the capability
\* blocks in the order of document.capabilities with the fields of each
\* block directly under its own Capability: line, and lists the Agent blocks
\* in the order in which the names were inserted in the agents mapping,
\* whatever the names are, those that look like integers included.
C25_GeneratedOrder ==
  [][(pc = "generate" /\ pass = 1 /\ pass' = 2) =>
      /\ Last(input'.text) = "\n"
      /\ Labelled(Emitted, "Capability: ")
           = [n \in 1..Len(Get(doc).capabilities) |-> Get(doc).capabilities[n].id]
      /\ \A n \in 1..Len(Get(doc).capabilities) :
           Below(Emitted, "Capability: ", n)
             = Chars("  Endpoint: ") \o Get(doc).capabilities[n].endpoint
      /\ Labelled(Emitted, "Agent: ")
           = IF InsertionOrder = <<>> THEN <<Chars("*")>> ELSE InsertionOrder
    ]_vars

\* --------------------------------------- generate and parse: the header
\* documents that carry a version and a timestamp
StampVersions == {Chars("1.0"), Chars("1.1"), Chars("2.0")}
StampTimes ==
  {Chars("2026-01-15T12:00:00.000Z"), Chars("2025-01-01T00:00:00Z")}
StampPolicies ==
  {NewPolicy,
   [rateLimit |-> Some([requests |-> 5, window |-> Chars("minute")]),
    capabilities |-> None]}

StampDocs ==
  {[specVersion |-> version,
    generatedAt |-> Some(time),
    site |-> [name |-> Chars("a"), url |-> Chars("https://a"),
              description |-> None, contact |-> None, privacyPolicy |-> None],
    capabilities |->
      <<[id |-> Chars("c"), description |-> <<>>,
         endpoint |-> Chars("https://a/c"), method |-> None,
         protocol |-> Chars("REST"), auth |-> None, rateLimit |-> None,
         openapi |-> None, parameters |-> None, scopes |-> None]>>,
    access |-> [allow |-> <<Chars("*")>>, disallow |-> <<>>],
    agents |-> <<[key |-> Chars("*"), value |-> policy]>>,
    metadata |-> None] :
     version \in StampVersions, time \in StampTimes, policy \in StampPolicies}

InitStamp ==
  /\ doc \in {Some(d) : d \in StampDocs}
  /\ input = Text(<<>>)
  /\ Idle
  /\ origin = "document"
  /\ pc = "generate"

SpecStamp == InitStamp /\ [][NextGenerate]_vars

\* C27: for a document with a specVersion and a generatedAt timestamp,
\* parse(generate(d)) succeeds and gives back the same specVersion and the
\* same generatedAt: the two header lines generate writes are lines parse
\* recognises.
C27_HeaderRoundTrip ==
  (Regenerated /\ IsSome(Get(doc).generatedAt)) =>
    /\ Get(result).success
    /\ Document.specVersion = Get(doc).specVersion
    /\ Document.generatedAt = Get(doc).generatedAt

\* ------------------------------------------------------------ RateLimiter
\* What the calls so far say, read off their record alone.
Live == cleanupTimer = "set"
EffectiveLimit(call) == OrElse(call.limit, defaultLimit)
CallsOf(key) == {n \in 1..Len(served) : served[n].key = key}
\* the calls of key before the n-th call of log that were allowed and are
\* less than windowMs old at time now
Inside(log, n, key, now) ==
  {m \in 1..(n - 1) :
     /\ log[m].key = key
     /\ log[m].returned.allowed
     /\ now - log[m].now < windowMs}
InsideBefore(n) == Inside(served, n, served[n].key, served[n].now)
\* every call of key so far was made with the limit L
SameLimit(key, L) == \A n \in CallsOf(key) : EffectiveLimit(served[n]) = L

\* C28: for every key whose calls of check all carry the same limit L >= 1,
\* made at non-decreasing times, at most L calls are allowed within any
\* interval shorter than windowMs; a call made while L allowed calls of the
\* key are inside the window is refused with remaining = 0, and an allowed
\* call reports remaining = L minus the allowed calls in the window, itself
\* included.
C28_SlidingWindow ==
  Live =>
    \A key \in Keys, L \in 1..2 :
      SameLimit(key, L) =>
        /\ \A t \in 0..MaxClock :
             Cardinality({n \in CallsOf(key) :
                            /\ served[n].returned.allowed
                            /\ t <= served[n].now
                            /\ served[n].now < t + windowMs}) <= L
        /\ \A n \in CallsOf(key) :
             IF Cardinality(InsideBefore(n)) >= L
               THEN /\ ~served[n].returned.allowed
                    /\ served[n].returned.remaining = 0
               ELSE served[n].returned.allowed =>
                      served[n].returned.remaining
                        = L - (Cardinality(InsideBefore(n)) + 1)

\* C28 witness: one key, one limit, three calls: allowed, refused while the
\* first is inside the window, allowed again once it has left
C28_Witness ==
  /\ Live
  /\ Len(served) = 3
  /\ SameLimit("a", 1)
  /\ CallsOf("a") = {1, 2, 3}
  /\ served[1].returned.allowed
  /\ ~served[2].returned.allowed
  /\ served[3].returned.allowed
  /\ served[3].now - served[1].now >= windowMs

\* a call of check has just returned
Checked == Len(served') = Len(served) + 1
\* the key of that call had no entry and the table was full
Crowded(call) == ~has(windows, call.key) /\ size(windows) >= maxEntries

\* C29: the table never holds more than maxEntries keys, whatever calls and
\* sweeps there have been; a check for an untracked key while maxEntries
\* keys are tracked returns allowed=false, remaining=0, retryAfterMs=windowMs
\* and leaves the table as it was, while a check for a tracked key is still
\* served by its own count.
C29_BoundedTable ==
  /\ [](size(windows) <= maxEntries)
  /\ [][(Checked /\ Live) =>
          LET call == Last(served')
              count == Cardinality(Inside(served, Len(served) + 1, call.key,
                                          call.now))
          IN  IF Crowded(call)
                THEN /\ call.returned
                          = [allowed |-> FALSE, remaining |-> 0,
                             retryAfterMs |-> Some(Num(windowMs))]
                     /\ windows' = windows
                ELSE has(windows, call.key) =>
                       call.returned.allowed = (count < EffectiveLimit(call))
       ]_vars

\* C29 witness: the table is full, a call for a key it does not hold has
\* just been refused, and the call before it served a key it does hold
C29_Witness ==
  /\ Live
  /\ Len(served) = 3
  /\ size(windows) = maxEntries
  /\ ~has(windows, served[3].key)
  /\ served[3].returned.retryAfterMs = Some(Num(windowMs))
  /\ has(windows, served[2].key)
  /\ served[2].returned.allowed
  /\ served[1].key = served[2].key

\* C30: whenever check refuses, retryAfterMs is a number with
\* 0 < retryAfterMs <= windowMs, and when the key is refused for its own
\* count it is windowMs minus the age of the oldest request of the key still
\* inside the window; for every key, time and limit >= 0.
C30_RetryAfter ==
  [][(Checked /\ Live /\ ~Last(served').returned.allowed) =>
      LET call == Last(served')
          inside == Inside(served, Len(served) + 1, call.key, call.now)
          retryAfterMs == call.returned.retryAfterMs
      IN  /\ IsSome(retryAfterMs)
          /\ ~Get(retryAfterMs).nan
          /\ 0 < Get(retryAfterMs).n
          /\ Get(retryAfterMs).n <= windowMs
          /\ ~Crowded(call) =>
               /\ inside # {}
               /\ Get(retryAfterMs).n
                    = windowMs - (call.now - SetMin({served[m].now : m \in inside}))
    ]_vars

\* the key of the call that has just returned was allowed before, with a
\* limit that requests can exhaust, and every request recorded for it is
\* windowMs old or older
Expired(call) ==
  /\ EffectiveLimit(call) >= 1
  /\ \E m \in CallsOf(call.key) : served[m].returned.allowed
  /\ Inside(served, Len(served) + 1, call.key, call.now) = {}

\* C31 as stated: once windowMs has elapsed since the requests that
\* exhausted a key's limit, the next check for that key is allowed, whether
\* or not the cleanup sweep has run in between.
C31_AsClaimed ==
  [][(Checked /\ Live /\ Expired(Last(served'))) =>
       Last(served').returned.allowed]_vars

\* C31: a recorded request counts against its key only while
\* now - t < windowMs: once windowMs has elapsed since the requests that
\* exhausted a key's limit, the next check for that key is allowed, whether
\* or not the cleanup sweep has run in between, unless the sweep has removed
\* the key and other keys fill the table to maxEntries, when the key is
\* refused as an untracked key with retryAfterMs = windowMs.
C31_WindowExpiry ==
  [][(Checked /\ Live /\ Expired(Last(served'))) =>
       IF Crowded(Last(served'))
         THEN /\ ~Last(served').returned.allowed
              /\ Last(served').returned.retryAfterMs = Some(Num(windowMs))
         ELSE /\ Last(served').returned.allowed
              /\ Last(served').returned.remaining
                   = EffectiveLimit(Last(served')) - 1]_vars

\* C31 witness: two requests exhaust the limit of a key, and the check made
\* exactly windowMs later is allowed while the key was in the table all along
C31_Witness ==
  /\ Live
  /\ Len(served) = 3
  /\ CallsOf("b") = {1, 2, 3}
  /\ SameLimit("b", 2)
  /\ served[2].returned.remaining = 0
  /\ served[2].now = served[1].now
  /\ served[3].now = served[2].now + windowMs
  /\ served[3].returned.allowed
  /\ served[3].returned.remaining = 1

\* the table the same calls leave when the cleanup never runs, and whether
\* one of them met a full table
RECURSIVE unswept(_)
unswept(log) ==
  IF log = <<>>
    THEN [windows |-> [key \in Keys |-> None], crowded |-> FALSE]
    ELSE LET before == unswept(SubSeq(log, 1, Len(log) - 1))
             call == Last(log)
             this == [This EXCEPT !.windows = before.windows]
         IN  [windows |-> check(this, call.key, call.limit, call.now).windows,
              crowded |-> before.crowded \/ atCapacity(this, call.key)]
\* the answer the call that has just returned gets when the cleanup never runs
Unswept(call) ==
  check([This EXCEPT !.windows = unswept(served).windows],
        call.key, call.limit, call.now).returned
\* the cleanup callback has just run and changed the table
Swept == windows' # windows /\ served' = served /\ cleanupTimer' = cleanupTimer
\* what the cleanup removes: timestamps check no longer counts, and keys left
\* with none
OnlyStale ==
  \A key \in Keys :
    IF has(windows', key)
      THEN /\ has(windows, key)
           /\ Get(windows'[key]) # <<>>
           /\ Get(windows'[key])
                = SelectSeq(Get(windows[key]), LAMBDA t : clock - t < windowMs)
      ELSE has(windows, key) =>
             \A n \in 1..Len(Get(windows[key])) :
               clock - Get(windows[key])[n] >= windowMs

\* C36 as stated: the cleanup may run between any two checks, removes only
\* expired timestamps and empty keys, and never changes the answer of a later
\* check.
C36_AsClaimed ==
  /\ [][Swept => OnlyStale]_vars
  /\ [][(Checked /\ Live) =>
          Last(served').returned.allowed = Unswept(Last(served')).allowed]_vars

\* C36: the cleanup may run between any two checks; it removes only
\* timestamps that are windowMs old or older and only keys left with no
\* timestamp, and as long as no check meets a full table it never changes the
\* answer of a later check. (By freeing the slots of stale keys it does change
\* which keys a full table admits.)
C36_SweepTransparent ==
  /\ [][Swept => OnlyStale]_vars
  /\ [][(Checked /\ Live /\ ~unswept(served').crowded) =>
          Last(served').returned = Unswept(Last(served'))]_vars

\* C36 witness: the cleanup has removed a key that was served, a later check
\* was answered, and no call met a full table
C36_Witness ==
  /\ Live
  /\ Len(served) = 3
  /\ served[1].key = "a"
  /\ served[1].returned.allowed
  /\ ~has(windows, "a")
  /\ served[2].key = "b"
  /\ served[3].key = "b"
  /\ served[2].now >= served[1].now + windowMs
  /\ ~served[3].returned.allowed
  /\ ~unswept(served).crowded

\* C37: a check answered allowed=false records nothing: it adds no timestamp
\* and no key, so apart from dropping the expired timestamps of its key the
\* table is the same before and after the call; repeated denied calls neither
\* prolong the time until the key is allowed again nor use up a table slot.
C37_DeniedRecordsNothing ==
  [][(Checked /\ ~Last(served').returned.allowed) =>
       \A key \in Keys :
         /\ has(windows', key) = has(windows, key)
         /\ has(windows, key) =>
              Get(windows'[key])
                = IF key = Last(served').key
                    THEN SelectSeq(Get(windows[key]),
                                   LAMBDA t : clock - t < windowMs)
                    ELSE Get(windows[key])]_vars

\* every request recorded for key is windowMs old or older
Stale(key) ==
  /\ has(windows, key)
  /\ \A n \in 1..Len(Get(windows[key])) :
       clock - Get(windows[key])[n] >= windowMs
\* the table holds maxEntries keys and none of them has made a request for
\* windowMs
FullOfStale ==
  /\ size(windows) >= maxEntries
  /\ \A key \in Keys : has(windows, key) => Stale(key)

\* C38: while the cleanup keeps running, stale keys are eventually evicted
\* and a table full of stale keys does not stay full, so a key refused only
\* for capacity finds a slot; check itself never evicts another key, and a
\* check for an untracked key that finds a free slot is admitted.
C38_EventuallyAdmitted ==
  /\ \A key \in Keys : []<>~(Live /\ Stale(key))
  /\ []<>~(Live /\ FullOfStale)
  /\ [][Checked =>
          \A key \in Keys \ {Last(served').key} :
            windows'[key] = windows[key]]_vars
  /\ [][(Checked /\ ~has(windows, Last(served').key)
                 /\ size(windows) < maxEntries
                 /\ EffectiveLimit(Last(served')) >= 1) =>
          /\ Last(served').returned.allowed
          /\ has(windows', Last(served').key)]_vars

\* C38 witness: with room for one key, a was served and went stale, b was
\* refused for capacity while a held the slot, and after the cleanup b is
\* admitted
C38_Witness ==
  /\ Live
  /\ maxEntries = 1
  /\ Len(served) = 3
  /\ served[1].key = "a"
  /\ served[1].returned.allowed
  /\ served[2].key = "b"
  /\ served[2].returned.retryAfterMs = Some(Num(windowMs))
  /\ served[2].now >= served[1].now + windowMs
  /\ served[3].key = "b"
  /\ served[3].returned.allowed
  /\ ~has(windows, "a")

\* ------------------------------------------------ parse: blocks and ceiling
\* manifests that open, continue and close blocks, with indented lines where
\* no block is open
BlockPool ==
  {Chars("Capability: c"), Chars("  Endpoint: e"), Chars("Agent: g"),
   Chars("  Capabilities: c"), <<>>, Chars("# x"), Chars("  Site-Name: b"),
   Chars("Site-URL: u")}
BlockTexts ==
  {join(HeaderLines \o b, <<"\n">>) : b \in SeqsUpTo(BlockPool, MaxLines)}

\* a manifest of MAX_CAPABILITIES lines `Capability: c` and a few lines more
CeilingHead == Chars("Capability: c") \o <<"\n">>
CeilingPool ==
  {Chars("Capability: d"), Chars("  Endpoint: e"), Chars("Agent: g"),
   Chars("# x"), Chars("  Site-Name: b")}
CeilingTails == SeqsUpTo(CeilingPool, MaxLines) \ {<<>>}
CeilingText(tail) ==
  [k \in 1..(MAX_CAPABILITIES * Len(CeilingHead)) |->
     CeilingHead[((k - 1) % Len(CeilingHead)) + 1]]
    \o join(tail, <<"\n">>)
\* the capability flushCapability commits for a line `Capability: c`
CommittedC ==
  flushCapability([NewFrame EXCEPT
                     !.currentCapability = Some(NewCapability(Chars("c")))])
    .capabilities[1]

\* parse has scanned the MAX_CAPABILITIES lines `Capability: c`: all but the
\* last capability are committed, the last one is open
AtCeiling(tail) ==
  /\ input = Text(CeilingText(tail))
  /\ lines = [k \in 1..MAX_CAPABILITIES |-> Chars("Capability: c")] \o tail
  /\ i = MAX_CAPABILITIES
  /\ FrameIs([NewFrame EXCEPT
                !.capabilities = [k \in 1..(MAX_CAPABILITIES - 1) |-> CommittedC],
                !.currentCapability = Some(NewCapability(Chars("c"))),
                !.state = "IN_CAPABILITY"])
  /\ pc = "scan"

InitBlocks ==
  /\ doc = None
  /\ ClientIdle
  /\ LimiterIdle
  /\ ServerIdle
  /\ SanitizeIdle
  /\ result = None
  /\ json = None
  /\ jsonResult = None
  /\ validation = None
  /\ pass = 1
  /\ origin = "text"
  /\ \/ /\ input \in {Text(t) : t \in BlockTexts}
        /\ lines = <<>>
        /\ i = 0
        /\ FrameIs(NewFrame)
        /\ pc = "begin"
     \/ \E tail \in CeilingTails : AtCeiling(tail)

SpecBlocks == InitBlocks /\ [][NextParse]_vars

\* the scan is between two lines
Scanning == pc = "scan"
PartialCapability == IsSome(currentCapability)
PartialAgent == IsSome(currentAgentName) /\ IsSome(currentAgentPolicy)
NoAgent == currentAgentName = None /\ currentAgentPolicy = None

\* C32: at every step of the line scan exactly one holds: TOP_LEVEL with no
\* partial capability and no partial agent, IN_CAPABILITY with a partial
\* capability and no partial agent, IN_AGENT with a partial agent and no
\* partial capability; the two are never open together, also after a
\* Capability: line refused at the ceiling.
C32_OneBlockOpen ==
  Scanning =>
    /\ state \in {"TOP_LEVEL", "IN_CAPABILITY", "IN_AGENT"}
    /\ state = "TOP_LEVEL" => ~PartialCapability /\ NoAgent
    /\ state = "IN_CAPABILITY" => PartialCapability /\ NoAgent
    /\ state = "IN_AGENT" => PartialAgent /\ ~PartialCapability
    /\ ~(PartialCapability /\ PartialAgent)

\* C32 witness: the scan goes on after a Capability: line was refused at the
\* ceiling
C32_Witness ==
  /\ Scanning
  /\ i > MAX_CAPABILITIES
  /\ i < Len(lines)
  /\ Len(capabilities) = MAX_CAPABILITIES
  /\ errors # <<>>
  /\ keyOf(trim(lines[i])) = Chars("Capability")
  /\ state = "TOP_LEVEL"

\* one iteration of the loop has just run, on line i + 1
Stepped == pc = "scan" /\ pc' = "scan" /\ i' = i + 1
Handled == lines[i + 1]

\* C33: an indented line met in state TOP_LEVEL is handled as the top-level
\* directive it spells, never as a continuation of an earlier block; a
\* committed capability is changed by no later line; blank and comment lines
\* inside a block neither close it nor change its fields.
C33_NoContinuation ==
  /\ [][(Stepped /\ state = "TOP_LEVEL" /\ isIndented(Handled)
                 /\ ~isSkipped(trim(Handled))) =>
          /\ Frame' = Directive(Frame, trim(Handled), i + 1)
          /\ SubSeq(capabilities', 1, Len(capabilities)) = capabilities
          /\ Len(capabilities') = Len(capabilities)]_vars
  /\ [][(pc = "scan") =>
          /\ Len(capabilities') >= Len(capabilities)
          /\ SubSeq(capabilities', 1, Len(capabilities)) = capabilities]_vars
  /\ [][(Stepped /\ isSkipped(trim(Handled))) =>
          /\ state' = state
          /\ currentCapability' = currentCapability
          /\ currentAgentName' = currentAgentName
          /\ currentAgentPolicy' = currentAgentPolicy
          /\ capabilities' = capabilities
          /\ agents' = agents]_vars

\* C33 witness: after a capability block and the top-level line that closed
\* it, an indented Endpoint line was stored as a top-level key while the
\* committed capability kept its empty endpoint
C33_Witness ==
  /\ Scanning
  /\ i = 5
  /\ lines[3] = Chars("Capability: c")
  /\ lines[4] = Chars("Site-URL: u")
  /\ lines[5] = Chars("  Endpoint: e")
  /\ state = "TOP_LEVEL"
  /\ Len(capabilities) = 1
  /\ capabilities[1].endpoint = <<>>
  /\ ObjHas(metadata, Chars("Endpoint"))

\* C34: each request of fetchText has its own controller and timer; on every
\* exit path of fetchText the timer is cleared before the call returns, so
\* no timer of the primary request is pending when the fallback request
\* starts, and a timer that fires aborts only the request it was made for.
C34_OwnTimer ==
  /\ Len(timers) = Len(requests)
  /\ \A n \in DOMAIN timers :
       timers[n] = "armed" =>
         /\ n = Len(requests)
         /\ cpc \in {"awaitResponse", "awaitBody"}
  /\ Len(requests) = 2 => timers[1] = "cleared"
  /\ Returned => \A n \in DOMAIN timers : timers[n] = "cleared"
  /\ Len(aborts) = Timeouts
  /\ \A k \in DOMAIN aborts :
       /\ aborts[k] <= Len(outcomes)
       /\ Outcome(aborts[k]).kind = "timeout"
  /\ \A k \in DOMAIN outcomes :
       Outcome(k).kind = "timeout" => \E a \in DOMAIN aborts : aborts[a] = k

\* C34 witness: the primary request was aborted by its timer, the fallback
\* request served a body, and both timers are cleared
C34_Witness ==
  /\ Returned
  /\ Len(requests) = 2
  /\ Outcome(1).kind = "timeout"
  /\ Outcome(2).kind = "body"
  /\ aborts = <<1>>
  /\ timers = <<"cleared", "cleared">>


\* --------------------------------- the client of src/unnamed/part_010
\* The repository holds a second AgentsTxtClient, whose fetchText returns the
\* text or null and whose discover tests the text for truthiness.
ALLOWED_SCHEMES == {Chars("http"), Chars("https")}

\* validateUrl, lines 75-85: new URL(url) and the scheme test
validateUrl(url) ==
  IF isUrl(url) /\ schemeOf(url) \in ALLOWED_SCHEMES THEN "ok" ELSE "throws"

\* lines 47-51 and 68-72
notFoundPlain(fmt, at) ==
  [success |-> FALSE, document |-> None,
   errors |-> <<[line |-> None, field |-> None,
                 message |-> IF fmt = "txt" THEN "No agents.txt found at"
                                               ELSE "No agents.json found at",
                 at |-> at]>>,
   warnings |-> <<>>]

\* what fetchText of part_010 returns instead of a text
null == [ok |-> FALSE, text |-> None, error |-> None]

\* fetchText has returned null or the empty string, which `if (primary)` and
\* `if (fallback)` take alike: discover goes on from line 43 to the
\* fallback, or from line 47 to the failure result
Miss(outcome) ==
  /\ outcomes' = Append(outcomes, outcome)
  /\ IF attempt = 1
       THEN /\ primary' = Some(null)
            /\ attempt' = 2
            /\ timer' = setTimeout
            /\ timers' = Append(clearTimeout(timers, attempt), setTimeout)
            /\ response' = None
            /\ requests' = Append(requests, normalized \o pathOf(format, 2))
            /\ inflight' = (inflight - 1) + 1
            /\ cpc' = "awaitResponse"
            /\ UNCHANGED <<fallback, discovered, handed, normalized>>
       ELSE /\ fallback' = Some(null)
            /\ discovered' = Some(notFoundPlain(format, normalized))
            /\ timer' = "cleared"
            /\ timers' = clearTimeout(timers, attempt)
            /\ response' = None
            /\ inflight' = inflight - 1
            /\ cpc' = "returned"
            /\ UNCHANGED <<attempt, requests, primary, handed, normalized>>
  /\ UNCHANGED <<format, baseUrl>>
  /\ UNCHANGED parseVarsAll

\* lines 35-40 and 58-62: validateUrl, then the call up to the first await
GuardedDiscover ==
  /\ cpc = "call"
  /\ IF validateUrl(baseUrl) = "throws"
       THEN /\ cpc' = "threw"
            /\ UNCHANGED <<normalized, attempt, timer, timers, response, requests,
                           inflight>>
       ELSE /\ normalized' = stripTrailingSlashes(baseUrl)
            /\ StartFetch(1)
            /\ cpc' = "awaitResponse"
  /\ UNCHANGED <<format, baseUrl, primary, fallback, discovered, outcomes, handed,
                 aborts>>
  /\ UNCHANGED parseVarsAll

\* line 92 resolves; lines 98-104 look at the status and at Content-Length
GuardedRespond ==
  /\ cpc = "awaitResponse"
  /\ UNCHANGED aborts
  /\ \E status \in Statuses, contentLength \in ContentLengths :
       IF ~responseOk(status)
         THEN Miss([kind |-> "status", status |-> status,
                    contentLength |-> contentLength, body |-> None])
       ELSE IF IsSome(contentLength) /\ Get(contentLength) > MAX_RESPONSE_BYTES
         THEN Miss([kind |-> "length", status |-> status,
                    contentLength |-> contentLength, body |-> None])
       ELSE /\ response' = Some([status |-> status, contentLength |-> contentLength])
            /\ cpc' = "awaitBody"
            /\ UNCHANGED <<format, baseUrl, normalized, primary, fallback,
                           discovered, attempt, timer, requests, inflight,
                           outcomes, handed, timers>>
            /\ UNCHANGED parseVarsAll

\* line 92 rejects
GuardedFetchRejects ==
  /\ cpc = "awaitResponse"
  /\ UNCHANGED aborts
  /\ Miss([kind |-> "refused", status |-> 0, contentLength |-> None, body |-> None])

\* line 89: the timer of the request under way fires
GuardedTimerFires ==
  /\ cpc \in {"awaitResponse", "awaitBody"}
  /\ timers[attempt] = "armed"
  /\ aborts' = Append(aborts, attempt)
  /\ Miss([kind |-> "timeout", status |-> 0, contentLength |-> None, body |-> None])

\* line 106 rejects
GuardedBodyFails ==
  /\ cpc = "awaitBody"
  /\ UNCHANGED aborts
  /\ Miss([kind |-> "bodyError", status |-> Get(response).status,
           contentLength |-> Get(response).contentLength, body |-> None])

\* line 106 resolves; line 107 measures the text, and lines 41/45 (63/66)
\* test the text returned: the empty string is falsy
GuardedBodyArrives ==
  /\ cpc = "awaitBody"
  /\ UNCHANGED aborts
  /\ \E body \in (IF format = "txt" THEN TextBodies ELSE JsonBodies) :
       LET outcome == [kind |-> "body", status |-> Get(response).status,
                       contentLength |-> Get(response).contentLength,
                       body |-> Some(body)]
       IN  IF bodyLength(body) > MAX_RESPONSE_BYTES \/ bodyLength(body) = 0
             THEN Miss(outcome)
             ELSE Hand(fetchSuccess(body), outcome)

NextDiscoverGuarded ==
  \/ GuardedDiscover
  \/ GuardedRespond
  \/ GuardedFetchRejects
  \/ GuardedTimerFires
  \/ GuardedBodyFails
  \/ GuardedBodyArrives

SpecDiscoverGuarded == InitDiscover /\ [][NextDiscoverGuarded]_vars

\* the k-th request was answered 2xx with a body of no characters
EmptyBody(k) ==
  /\ Outcome(k).kind = "body"
  /\ bodyLength(Get(Outcome(k).body)) = 0

\* C39: a 2xx response with an empty body is a successful fetch: the empty
\* text goes to the parser and the parser's failure (Site-Name and Site-URL
\* missing, or invalid JSON) is what the call returns, with no request for
\* the fallback path after it, as for any other 2xx body.
C39_EmptyBody ==
  \A k \in DOMAIN outcomes :
    EmptyBody(k) =>
      /\ Returned
      /\ k = Len(outcomes)
      /\ Len(requests) = k
      /\ Last(handed) = Get(Outcome(k).body)
      /\ Get(discovered) = Expected(Get(Outcome(k).body))
      /\ ~Get(discovered).success
      /\ Get(discovered).document = None
      /\ IF format = "txt"
           THEN /\ Len(Get(discovered).errors) = 2
                /\ Get(discovered).errors[1].field = Some("Site-Name")
                /\ Get(discovered).errors[2].field = Some("Site-URL")
           ELSE /\ Len(Get(discovered).errors) = 1
                /\ Get(discovered).errors[1].message = "Invalid JSON"


\* ------------------------------------------------------ mcp/src/server.ts
needsFallbackAlways(r) == TRUE

\* line 25: the text discovery runs when the JSON discovery did not succeed
needsFallback(r) == ~r.success

\* line 29: the result createAgentsTxtServer gives up on
failedToDiscover(r) == ~r.success \/ r.document = None

\* lines 30-32; at and causes are the two holes of the message template
failedMessage(at, r) ==
  [message |-> "Failed to discover agents.txt at", at |-> at,
   causes |-> r.errors]

\* lines 21-24: createAgentsTxtServer(targetUrl) has made its client and
\* called client.discoverJSON(targetUrl)
InitServer ==
  /\ input = Text(<<>>)
  /\ doc = None
  /\ lines = <<>>
  /\ i = 0
  /\ FrameIs(NewFrame)
  /\ result = None
  /\ json = None
  /\ jsonResult = None
  /\ validation = None
  /\ pass = 1
  /\ origin = "url"
  /\ pc = "unused"
  /\ format = "json"
  /\ baseUrl \in BaseUrls
  /\ normalized = <<>>
  /\ primary = None
  /\ fallback = None
  /\ discovered = None
  /\ attempt = 0
  /\ timer = "none"
  /\ response = None
  /\ requests = <<>>
  /\ inflight = 0
  /\ outcomes = <<>>
  /\ handed = <<>>
  /\ timers = <<>>
  /\ aborts = <<>>
  /\ cpc = "call"
  /\ LimiterIdle
  /\ SanitizeIdle
  /\ mcp = [pc |-> "discoverJSON", json |-> None, asked |-> <<>>,
            returned |-> None, thrown |-> None]

\* lines 25-26: discoverJSON has returned without success, and
\* client.discover(targetUrl) is called; the call has locals and timers of
\* its own, and the record of the network starts anew with it
DiscoverText ==
  /\ mcp.pc = "discoverJSON"
  /\ cpc = "returned"
  /\ needsFallback(Get(discovered))
  /\ mcp' = [mcp EXCEPT !.pc = "discover", !.json = discovered,
                        !.asked = requests]
  /\ format' = "txt"
  /\ cpc' = "call"
  /\ normalized' = <<>>
  /\ primary' = None
  /\ fallback' = None
  /\ discovered' = None
  /\ attempt' = 0
  /\ timer' = "none"
  /\ response' = None
  /\ timers' = <<>>
  /\ aborts' = <<>>
  /\ requests' = <<>>
  /\ outcomes' = <<>>
  /\ handed' = <<>>
  /\ UNCHANGED <<baseUrl, inflight>>
  /\ UNCHANGED <<parseVars, doc, jsonVars, validation, origin, pass, pc, limiterVars,
                 sanitizeCall>>

\* lines 29-48: the last discovery has returned; the call throws, or builds
\* the server and returns it with the document
CreateServerEnds ==
  /\ cpc = "returned"
  /\ \/ mcp.pc = "discoverJSON" /\ ~needsFallback(Get(discovered))
     \/ mcp.pc = "discover"
  /\ mcp' = [pc |-> IF failedToDiscover(Get(discovered)) THEN "threw" ELSE "returned",
             json |-> IF mcp.pc = "discoverJSON" THEN discovered ELSE mcp.json,
             asked |-> mcp.asked,
             returned |-> IF failedToDiscover(Get(discovered)) THEN None
                          ELSE Get(discovered).document,
             thrown |-> IF failedToDiscover(Get(discovered))
                          THEN Some(failedMessage(baseUrl, Get(discovered)))
                          ELSE None]
  /\ UNCHANGED <<parseVars, doc, jsonVars, validation, origin, pass, pc, clientVars,
                 limiterVars, sanitizeCall>>

NextServer ==
  \/ Discover
  \/ Respond
  \/ FetchRejects
  \/ TimerFires
  \/ BodyFails
  \/ BodyArrives
  \/ DiscoverText
  \/ CreateServerEnds

SpecServer == InitServer /\ [][NextServer]_vars

\* the four URLs in the order createAgentsTxtServer may ask for them
ServerPaths ==
  <<pathOf("json", 1), pathOf("json", 2), pathOf("txt", 1), pathOf("txt", 2)>>

\* the URLs given to fetch since createAgentsTxtServer was called
Asked == mcp.asked \o requests

\* the k-th request went to the p-th of the four paths
AsksPath(k, p) == Asked[k] = stripTrailingSlashes(baseUrl) \o ServerPaths[p]

\* the place among the four paths of the k-th request
PathAsked(k) == CHOOSE p \in 1..4 : AsksPath(k, p)

\* the text discovery, once createAgentsTxtServer has called it
TextResult ==
  IF mcp.pc = "discover" THEN discovered
  ELSE IF mcp.pc \in {"threw", "returned"} /\ format = "txt" THEN discovered
  ELSE None

\* the JSON discovery, once it has returned
JsonResult ==
  IF mcp.pc = "discoverJSON" THEN discovered ELSE mcp.json

ServerOver == mcp.pc \in {"threw", "returned"}

\* C35: createAgentsTxtServer asks for at most four URLs, in the order
\* /.well-known/agents.json, /agents.json, /.well-known/agents.txt,
\* /agents.txt, starting with the first; a text path is asked for only after
\* the JSON discovery has returned without success; nothing is asked for
\* once a discovery has succeeded; and the call throws "Failed to discover"
\* exactly when both discoveries were unsuccessful, returning the document
\* of the successful one otherwise; each of the two discovery calls asks
\* only for the two paths of its own format
C35_JsonThenText ==
  /\ Len(Asked) <= 4
  /\ \A k \in DOMAIN Asked : \E p \in 1..4 : AsksPath(k, p)
  /\ Len(Asked) >= 1 => AsksPath(1, 1)
  /\ \A k \in DOMAIN Asked : k > 1 => PathAsked(k - 1) < PathAsked(k)
  /\ \A k \in DOMAIN Asked :
       PathAsked(k) >= 3 => IsSome(mcp.json) /\ ~Get(mcp.json).success
  /\ format = "txt" => IsSome(mcp.json) /\ ~Get(mcp.json).success
  /\ Len(requests) <= 2
  /\ \A k \in DOMAIN requests :
       \E n \in 1..2 : requests[k] = normalized \o pathOf(format, n)
  /\ ServerOver =>
       /\ IsSome(JsonResult)
       /\ mcp.pc = "threw" <=>
            /\ ~Get(JsonResult).success
            /\ IsSome(TextResult)
            /\ ~Get(TextResult).success
       /\ mcp.pc = "threw" =>
            /\ IsSome(mcp.thrown)
            /\ Get(mcp.thrown).message = "Failed to discover agents.txt at"
       /\ mcp.pc = "returned" =>
            /\ IsSome(mcp.returned)
            /\ IF Get(JsonResult).success
                 THEN /\ mcp.returned = Get(JsonResult).document
                      /\ TextResult = None
                      /\ \A k \in DOMAIN Asked : PathAsked(k) <= 2
                 ELSE /\ Get(TextResult).success
                      /\ mcp.returned = Get(TextResult).document

\* the call returned the document of /agents.txt after three failures
C35_Witness ==
  /\ mcp.pc = "returned"
  /\ Len(Asked) = 4
  /\ IsSome(mcp.json)
  /\ ~Get(mcp.json).success
  /\ IsSome(discovered)
  /\ Get(discovered).success

\* ----------------------------------------------- sanitizeValue, called alone
MaxValueLen == 3

\* a letter, the space, the line breaks and another control character
ValueChars == {"a", " ", "\n", "\r", "\t"}

Values == UNION {[1..n -> ValueChars] : n \in 0..MaxValueLen}

InitSanitize ==
  /\ input = Text(<<>>)
  /\ doc = None
  /\ lines = <<>>
  /\ i = 0
  /\ FrameIs(NewFrame)
  /\ result = None
  /\ json = None
  /\ jsonResult = None
  /\ validation = None
  /\ pass = 1
  /\ origin = "value"
  /\ pc = "unused"
  /\ ClientIdle
  /\ LimiterIdle
  /\ ServerIdle
  /\ \E v \in Values, n \in 0..MaxValueLen :
       sanitizeCall = [value |-> v, maxLength |-> n, returned |-> <<>>,
                       pc |-> "call"]

\* sanitizeValue(value, maxLength) returns
Sanitize ==
  /\ sanitizeCall.pc = "call"
  /\ sanitizeCall' =
       [sanitizeCall EXCEPT
          !.returned = <<sanitizeValue(sanitizeCall.value, sanitizeCall.maxLength)>>,
          !.pc = "again"]
  /\ UNCHANGED <<parseVars, doc, jsonVars, validation, origin, pass, pc, clientVars,
                 limiterVars, mcp>>

\* the returned value is sanitized with the same maxLength
SanitizeAgain ==
  /\ sanitizeCall.pc = "again"
  /\ sanitizeCall' =
       [sanitizeCall EXCEPT
          !.returned = Append(@, sanitizeValue(sanitizeCall.returned[1],
                                               sanitizeCall.maxLength)),
          !.pc = "done"]
  /\ UNCHANGED <<parseVars, doc, jsonVars, validation, origin, pass, pc, clientVars,
                 limiterVars, mcp>>

NextSanitize == Sanitize \/ SanitizeAgain

SpecSanitize == InitSanitize /\ [][NextSanitize]_vars

\* C40: whatever the value and the maxLength, the value sanitizeValue returns
\* holds no CR, LF or other control character, neither begins nor ends with
\* white space, is at most maxLength characters long, and is returned
\* unchanged when it is sanitized again
C40_Normalised ==
  /\ Len(sanitizeCall.returned) >= 1 =>
       /\ \A k \in DOMAIN sanitizeCall.returned[1] :
            sanitizeCall.returned[1][k] \notin ControlChars \cup {"\r", "\n"}
       /\ trim(sanitizeCall.returned[1]) = sanitizeCall.returned[1]
       /\ Len(sanitizeCall.returned[1]) <= sanitizeCall.maxLength
  /\ Len(sanitizeCall.returned) = 2 =>
       sanitizeCall.returned[2] = sanitizeCall.returned[1]


====
